---- MODULE Spec2Model ----
(***************************************************************************)
(* Model of the AISCRA supply-chain risk pipeline (backend/src).           *)
(*                                                                         *)
(*   ingestion/redis_streams.py   streams, consumer groups, consume loop   *)
(*   ingestion/deduplicator.py    fingerprint and dedup index              *)
(*   ingestion/celery_app.py      fetch cycle                              *)
(*   risk_engine/workers.py       extraction, scoring and alert handlers   *)
(*   risk_engine/scoring.py       risk score and severity band             *)
(*   risk_engine/graph_propagation.py  propagation over the supply graph   *)
(*   risk_engine/alert_generator.py  alert gate and alert creation         *)
(*                                                                         *)
(* Redis and MongoDB are modelled by what their commands do: XADD appends, *)
(* XGROUP CREATE ... $ starts a group at the current end of the stream,    *)
(* XREADGROUP ... > hands out entries never delivered to the group and     *)
(* puts them in the pending entries list (PEL), XACK removes from the PEL, *)
(* SET NX EX creates a key only if absent; insert_one assigns an ObjectId. *)
(* XACK and XREADGROUP themselves are taken to succeed.                    *)
(***************************************************************************)
EXTENDS Integers, Sequences, FiniteSets, TLC

VARIABLES
    stream,     \* stream name -> sequence of records (entry id = position)
    grp,        \* stream name -> consumer group: exists, start ($ at creation),
                \* last delivered id, PEL
    loop,       \* consumer loop -> [stream, pc, batch] (one consume_stream call)
    hlog,       \* stream name -> log of handler invocations (history)
    fpIn,       \* the two articles given to generate_fingerprint
    fpOut,      \* their fingerprints, once computed
    fnIn,       \* the arguments given to a function of the risk engine
    fnOut,      \* what it returned, once computed
    dedup,      \* Redis dedup keys: fingerprint -> time the key expires at
    now,        \* the time, in seconds
    fetcher,    \* fetch task -> its position in fetch_all_sources and its counts
    fetchResults, \* the counts the finished fetch cycles returned, added up
    uuidc,      \* uuid4 values handed out so far
    dlog,       \* the is_duplicate calls made, with their number (history)
    articles,   \* MongoDB collection articles: a set of documents
    risk_events, \* MongoDB collection risk_events
    alerts,     \* MongoDB collection alerts
    oidc        \* ObjectIds generated so far

busVars == <<stream, grp, loop, hlog>>
fpVars == <<fpIn, fpOut>>
fnVars == <<fnIn, fnOut>>
fetchVars == <<dedup, now, fetcher, fetchResults, uuidc, dlog>>
storeVars == <<articles, risk_events, alerts, oidc>>
vars == <<stream, grp, loop, hlog, fpIn, fpOut, fnIn, fnOut,
          dedup, now, fetcher, fetchResults, uuidc, dlog,
          articles, risk_events, alerts, oidc>>

------------------------------------------------------------------------------
(* Bounds of the model *)

MaxRecords == 3
\* longest headline given to generate_fingerprint
MaxHeadLen == 2
\* articles the news API returns in a run, all fetch cycles together
MaxArticles == 3
\* clock ticks in a run, and the seconds of one tick
MaxTicks == 2
TickSeconds == 86400
\* deliveries of entries that were delivered before
MaxReplays == 1
\* records a producer appends to the stream of a stage worker
MaxPublished == 2
\* highest score given to score_to_band, in hundredths
MaxScore == 1100

------------------------------------------------------------------------------
(* Streams: redis_streams.py *)

STREAM_NORMALIZED_EVENTS == "normalized_events"
STREAM_RISK_ENTITIES == "risk_entities"
STREAM_RISK_SCORES == "risk_scores"
STREAM_NEW_ALERTS == "new_alerts"

Streams == {STREAM_NORMALIZED_EVENTS, STREAM_RISK_ENTITIES,
            STREAM_RISK_SCORES, STREAM_NEW_ALERTS}

\* XREADGROUP count argument of the stage workers
count == 5

NoGroup == [exists |-> FALSE, start |-> 0, last |-> 0, pel |-> {}]

RECURSIVE RangeSeq(_, _)
RangeSeq(a, b) == IF a > b THEN <<>> ELSE <<a>> \o RangeSeq(a + 1, b)

Min(a, b) == IF a < b THEN a ELSE b

\* XADD appends the record at the end of the stream.
XAdd(st, s, data) == [st EXCEPT ![s] = Append(@, data)]

\* Fields whose values are lists (json.dumps), numbers (str of a float) and
\* free text; every other field holds an identifier or a fixed word.
ListFields == {"affected_nodes"}
NumberFields == {"risk_score"}
TextFields == {"headline", "body", "url", "title"}

Digits == {"0", "1", "2", "3", "4", "5", "6", "7", "8", "9"}

\* a text json.loads reads as a number: digits without a leading zero
IsNumberText(s) ==
    /\ s # <<>>
    /\ \A i \in DOMAIN s : s[i] \in Digits
    /\ (Len(s) > 1 => s[1] # "0")

\* the texts json.loads reads as true, false and null
JsonLiterals ==
    (<<"t", "r", "u", "e">> :> <<"bool", TRUE>>)
    @@ (<<"f", "a", "l", "s", "e">> :> <<"bool", FALSE>>)
    @@ (<<"n", "u", "l", "l">> :> <<"null">>)

\* what push_to_stream makes of the values: JSON text of a list, the decimal
\* text of a number, the string itself
serialize(data) ==
    [k \in DOMAIN data |->
        IF k \in ListFields THEN <<"json", data[k]>>
        ELSE IF k \in NumberFields THEN <<"repr", data[k]>>
        ELSE data[k]]

\* what consume_stream makes of the fields: json.loads where the text is
\* JSON (a list, a number), the text itself where it is not
deserialize(fields) ==
    [k \in DOMAIN fields |->
        IF k \in ListFields \cup NumberFields THEN fields[k][2]
        ELSE IF k \in TextFields /\ IsNumberText(fields[k]) THEN <<"number", fields[k]>>
        ELSE IF k \in TextFields /\ fields[k] \in DOMAIN JsonLiterals
             THEN JsonLiterals[fields[k]]
        ELSE fields[k]]

push_to_stream(st, s, data) == XAdd(st, s, serialize(data))

\* create_consumer_group: XGROUP CREATE s g $ MKSTREAM; BUSYGROUP is ignored,
\* so an existing group is left as it is.
create_consumer_group(g, st, s) ==
    IF g[s].exists THEN g
    ELSE [g EXCEPT ![s] = [exists |-> TRUE, start |-> Len(st[s]),
                            last |-> Len(st[s]), pel |-> {}]]

\* The ids a read from the start of the group would return
EntriesFromStart(s) ==
    RangeSeq(grp[s].start + 1, Min(Len(stream[s]), grp[s].start + count))

\* The ids XREADGROUP with last_id '>' returns: never-delivered entries, at
\* most count of them.
NewEntries(s) ==
    RangeSeq(grp[s].last + 1, Min(Len(stream[s]), grp[s].last + count))

\* consume_stream up to the loop: make sure the group exists, last_id = '>'.
\* Celery beat re-invokes the worker task, which calls consume_stream anew.
StartLoop(c) ==
    /\ loop[c].pc = "stopped"
    /\ grp' = create_consumer_group(grp, stream, loop[c].stream)
    /\ loop' = [loop EXCEPT ![c].pc = "run", ![c].batch = <<>>]
    /\ UNCHANGED <<stream, hlog>>

\* One XREADGROUP that returned entries: they enter the PEL and the batch.
\* (An empty answer after block_ms just loops: no change of state.)
ReadBatch(c) ==
    LET s == loop[c].stream
        ids == NewEntries(s) IN
    /\ loop[c].pc = "run"
    /\ loop[c].batch = <<>>
    /\ ids # <<>>
    /\ grp' = [grp EXCEPT ![s].last = ids[Len(ids)],
                          ![s].pel = @ \cup {ids[k] : k \in DOMAIN ids}]
    /\ loop' = [loop EXCEPT ![c].batch = ids]
    /\ UNCHANGED <<stream, hlog>>

\* The body of the for loop for the entry at the head of the batch: the
\* handler ran with result res ("ok": returned, "raise": raised an Exception);
\* XACK only when it returned; in both cases go on with the next entry.
AckAlways(c, res, fail) ==
    LET s == loop[c].stream
        e == Head(loop[c].batch) IN
    /\ grp' = [grp EXCEPT ![s].pel = @ \ {e}]
    /\ loop' = [loop EXCEPT ![c].batch = Tail(@)]
    /\ hlog' = [hlog EXCEPT ![s] = Append(@, [id |-> e, res |-> res, fail |-> fail])]

Deliver(c, res, fail) ==
    LET s == loop[c].stream
        e == Head(loop[c].batch) IN
    /\ grp' = IF res = "ok" THEN [grp EXCEPT ![s].pel = @ \ {e}] ELSE grp
    /\ loop' = [loop EXCEPT ![c].batch = Tail(@)]
    /\ hlog' = [hlog EXCEPT ![s] = Append(@, [id |-> e, res |-> res, fail |-> fail])]

CanDeliver(c) == loop[c].pc = "run" /\ loop[c].batch # <<>>

\* KeyboardInterrupt: the loop breaks; what was read and not yet handled
\* stays in the PEL.
Interrupt(c) ==
    /\ loop[c].pc = "run"
    /\ loop' = [loop EXCEPT ![c].pc = "stopped", ![c].batch = <<>>]
    /\ UNCHANGED <<stream, grp, hlog>>

------------------------------------------------------------------------------
(* Strings are sequences of characters *)

UpperCase == <<"A", "B", "C", "D", "E", "F", "G", "H", "I", "J", "K", "L", "M", "N", "O", "P", "Q", "R", "S", "T", "U", "V", "W", "X", "Y", "Z">>
LowerCase == <<"a", "b", "c", "d", "e", "f", "g", "h", "i", "j", "k", "l", "m", "n", "o", "p", "q", "r", "s", "t", "u", "v", "w", "x", "y", "z">>

\* str.lower() on one character
LowerChar(ch) ==
    IF \E i \in DOMAIN UpperCase : UpperCase[i] = ch
    THEN LowerCase[CHOOSE i \in DOMAIN UpperCase : UpperCase[i] = ch]
    ELSE ch

Lower(s) == [i \in DOMAIN s |-> LowerChar(s[i])]

IsSpace(ch) == ch \in {" ", "\t", "\n"}

RECURSIVE LStrip(_)
LStrip(s) == IF s # <<>> /\ IsSpace(Head(s)) THEN LStrip(Tail(s)) ELSE s

RECURSIVE RStrip(_)
RStrip(s) ==
    IF s # <<>> /\ IsSpace(s[Len(s)]) THEN RStrip(SubSeq(s, 1, Len(s) - 1)) ELSE s

\* str.strip()
Strip(s) == RStrip(LStrip(s))

\* s[:n]
Take(s, n) == SubSeq(s, 1, Min(n, Len(s)))

RECURSIVE Rep(_, _)
Rep(ch, n) == IF n = 0 THEN <<>> ELSE <<ch>> \o Rep(ch, n - 1)

RECURSIVE SeqsUpTo(_, _)
SeqsUpTo(A, n) ==
    IF n = 0 THEN {<<>>}
    ELSE LET shorter == SeqsUpTo(A, n - 1) IN
         shorter \cup {Append(s, a) : s \in shorter, a \in A}

------------------------------------------------------------------------------
(* Fingerprint: deduplicator.py *)

\* number of characters of the body that enter the fingerprint
BodyPrefixLen == 100

\* hashlib.md5(content).hexdigest(): a function of the content, taken to be
\* free of collisions
MD5(content) == <<"md5", content>>

generate_fingerprint(article) ==
    LET headline == Strip(Lower(article.headline)) IN
    MD5(IF article.body # <<>>
        THEN headline \o <<" ">> \o Strip(Lower(Take(article.body, BodyPrefixLen)))
        ELSE headline)

FpChars == {"a", "A", " "}
FpHeadlines == SeqsUpTo(FpChars, MaxHeadLen)
FpBodies ==
    SeqsUpTo(FpChars, 1)
        \cup {Rep("a", BodyPrefixLen), <<" ">> \o Rep("a", BodyPrefixLen)}
FpArticles == [headline : FpHeadlines, body : FpBodies]

InitFp ==
    /\ fpIn \in FpArticles \X FpArticles
    /\ fpOut = <<>>

IdleFp ==
    /\ fpIn = <<>>
    /\ fpOut = <<>>

\* no function of the risk engine is being applied
IdleFn ==
    /\ fnIn = <<>>
    /\ fnOut = <<>>

Fingerprint ==
    /\ fpOut = <<>>
    /\ fpOut' = <<generate_fingerprint(fpIn[1]), generate_fingerprint(fpIn[2])>>
    /\ UNCHANGED <<fpIn, fnVars, busVars, fetchVars, storeVars>>

------------------------------------------------------------------------------
(* Dedup index: deduplicator.py *)

\* default ttl_seconds of is_duplicate: 48 hours
ttl_seconds == 172800

KeyAlive(d, key, t) == key \in DOMAIN d /\ d[key] > t

\* SET key 1 EX ttl without NX: the key is always written
SetAlways(d, key, t, ttl) ==
    [was_set |-> TRUE,
     d |-> [k \in DOMAIN d \cup {key} |-> IF k = key THEN t + ttl ELSE d[k]]]

\* SET that also renews the expiry of a key it finds
SetNXRenew(d, key, t, ttl) ==
    [was_set |-> ~KeyAlive(d, key, t),
     d |-> [k \in DOMAIN d \cup {key} |-> IF k = key THEN t + ttl ELSE d[k]]]

\* redis SET key 1 NX EX ttl at time t: one atomic command. The key is
\* written, with its expiry, only if there is no live key.
SetNX(d, key, t, ttl) ==
    IF KeyAlive(d, key, t)
    THEN [was_set |-> FALSE, d |-> d]
    ELSE [was_set |-> TRUE,
          d |-> [k \in DOMAIN d \cup {key} |-> IF k = key THEN t + ttl ELSE d[k]]]

\* is_duplicate(article): [dup, d] - the answer and the index afterwards
is_duplicate(article, d, t) ==
    LET r == SetNX(d, generate_fingerprint(article), t, ttl_seconds) IN
    [dup |-> ~r.was_set, d |-> r.d]

------------------------------------------------------------------------------
(* Normalizer: normalizer.py *)

\* normalize_newsapi_article; the timestamp is always a datetime
normalize_newsapi_article(raw, uuid) ==
    [event_id |-> uuid,
     source |-> "NewsAPI",
     headline |-> raw.title,
     body |-> IF raw.content # <<>> THEN raw.content ELSE raw.description,
     url |-> raw.url]

MinHeadlineLen == 10

\* a validation that only looks at the required fields
NoLengthCheck(article) ==
    /\ article.source # ""
    /\ article.headline # <<>>
    /\ article.url # <<>>

\* event_id and timestamp are always set by the normalizer
validate_article(article) ==
    /\ article.source # ""
    /\ article.headline # <<>>
    /\ article.url # <<>>
    /\ Len(article.headline) >= MinHeadlineLen

------------------------------------------------------------------------------
(* Fetch cycle: celery_app.py fetch_all_sources *)

\* What the news API may return
RawPortStrike ==
    [title |-> <<"P", "o", "r", "t", " ", "s", "t", "r", "i", "k", "e", " ", "h", "a", "l", "t", "s", " ", "o", "i", "l">>,
     content |-> <<"R", "o", "s", "n", "e", "f", "t", " ", "h", "i", "t">>,
     description |-> <<>>,
     url |-> <<"u", "1">>]
RawPortStrikeAgain ==
    [title |-> <<" ", "P", "O", "R", "T", " ", "S", "T", "R", "I", "K", "E", " ", "H", "A", "L", "T", "S", " ", "O", "I", "L">>,
     content |-> <<>>,
     description |-> <<"R", "o", "s", "n", "e", "f", "t", " ", "H", "i", "t", " ">>,
     url |-> <<"u", "2">>]
RawRefineryFire ==
    [title |-> <<"R", "e", "f", "i", "n", "e", "r", "y", " ", "f", "i", "r", "e">>,
     content |-> <<>>,
     description |-> <<>>,
     url |-> <<"u", "3">>]
RawShortHeadline ==
    [title |-> <<"O", "i", "l", " ", "u", "p">>,
     content |-> <<"R", "o", "s", "n", "e", "f", "t", " ", "h", "i", "t">>,
     description |-> <<>>,
     url |-> <<"u", "4">>]

\* an answer without a url: raw.get("url", "") is the empty string
RawNoUrl ==
    [title |-> <<"R", "e", "f", "i", "n", "e", "r", "y", " ", "f", "i", "r", "e">>,
     content |-> <<>>,
     description |-> <<>>,
     url |-> <<>>]

\* the same article twice, another one, and two that are not valid
RawArticles == {RawPortStrike, RawPortStrikeAgain, RawRefineryFire, RawShortHeadline, RawNoUrl}

\* the worker processes that can run fetch_all_sources at the same time
Fetchers == {"fetch_1", "fetch_2"}

NoCounts == [total_fetched |-> 0, total_new |-> 0,
             total_duplicates |-> 0, total_invalid |-> 0]

IdleFetcher == [pc |-> "idle", left |-> 0, cur |-> <<>>, counts |-> NoCounts]

InitFetch(F) ==
    /\ dedup = << >>
    /\ now = 0
    /\ fetcher = [f \in F |-> IdleFetcher]
    /\ fetchResults = NoCounts
    /\ uuidc = 0
    /\ dlog = << >>

RECURSIVE SumLeft(_)
SumLeft(F) ==
    IF F = {} THEN 0
    ELSE LET f == CHOOSE x \in F : TRUE IN fetcher[f].left + SumLeft(F \ {f})

\* articles handled so far or waiting in an answer
ArticlesPlanned == uuidc + SumLeft(DOMAIN fetcher)

AddCounts(a, b) ==
    [total_fetched |-> a.total_fetched + b.total_fetched,
     total_new |-> a.total_new + b.total_new,
     total_duplicates |-> a.total_duplicates + b.total_duplicates,
     total_invalid |-> a.total_invalid + b.total_invalid]

\* one more call in the log of is_duplicate calls
LogCall(log, call) ==
    [c \in DOMAIN log \cup {call} |->
        IF c = call THEN (IF c \in DOMAIN log THEN log[c] + 1 ELSE 1) ELSE log[c]]

\* Celery beat starts the task; newsapi.fetch answers with n articles
\* (none when the request fails).
StartFetch(f) ==
    /\ fetcher[f].pc = "idle"
    /\ \E n \in 0..(MaxArticles - ArticlesPlanned) :
        fetcher' = [fetcher EXCEPT ![f] =
            [pc |-> "loop", left |-> n, cur |-> <<>>,
             counts |-> [NoCounts EXCEPT !.total_fetched = n]]]
    /\ UNCHANGED <<dedup, now, fetchResults, uuidc, dlog, stream>>

\* The loop body up to the push, for the next article raw of the answer:
\* normalize, validate, is_duplicate.
FetchArticle(f, raw) ==
    LET article == normalize_newsapi_article(raw, uuidc + 1)
        r == is_duplicate(article, dedup, now)
        me == fetcher[f] IN
    /\ me.pc = "loop"
    /\ me.left > 0
    /\ uuidc' = uuidc + 1
    /\ IF ~validate_article(article)
       THEN /\ fetcher' = [fetcher EXCEPT ![f].left = @ - 1,
                                          ![f].counts.total_invalid = @ + 1]
            /\ UNCHANGED <<dedup, dlog>>
       ELSE /\ dedup' = r.d
            /\ dlog' = LogCall(dlog, [fp |-> generate_fingerprint(article),
                                      novel |-> ~r.dup, t |-> now])
            /\ IF r.dup
               THEN fetcher' = [fetcher EXCEPT ![f].left = @ - 1,
                                               ![f].counts.total_duplicates = @ + 1]
               ELSE fetcher' = [fetcher EXCEPT ![f].left = @ - 1,
                                               ![f].pc = "push",
                                               ![f].cur = <<article>>]
    /\ UNCHANGED <<now, fetchResults, stream>>

\* push_to_stream(normalized_events, normalized); when it raises, the loop
\* logs the error and goes on with the next article.
PushArticle(f, pushed) ==
    LET me == fetcher[f] IN
    /\ me.pc = "push"
    /\ IF pushed
       THEN /\ stream' = push_to_stream(stream, STREAM_NORMALIZED_EVENTS, me.cur[1])
            /\ fetcher' = [fetcher EXCEPT ![f].pc = "loop", ![f].cur = <<>>,
                                          ![f].counts.total_new = @ + 1]
       ELSE /\ fetcher' = [fetcher EXCEPT ![f].pc = "loop", ![f].cur = <<>>]
            /\ UNCHANGED stream
    /\ UNCHANGED <<dedup, now, fetchResults, uuidc, dlog>>

\* The loop is over: the task returns its counts.
EndFetch(f) ==
    /\ fetcher[f].pc = "loop"
    /\ fetcher[f].left = 0
    /\ fetchResults' = AddCounts(fetchResults, fetcher[f].counts)
    /\ fetcher' = [fetcher EXCEPT ![f] = IdleFetcher]
    /\ UNCHANGED <<dedup, now, uuidc, dlog, stream>>

\* Time passes.
Tick(limit) ==
    /\ now + TickSeconds <= limit
    /\ now' = now + TickSeconds
    /\ UNCHANGED <<dedup, fetcher, fetchResults, uuidc, dlog, stream>>

------------------------------------------------------------------------------
(* Document store: models/db.py, pymongo *)

\* An ObjectId, and the string str() makes of an id: a 24 character hex
\* string for an ObjectId, the string itself for a string.
ObjectId(n) == <<"oid", n>>
str(id) == <<"str", id[2]>>

\* None where an id is expected
NoneId == <<"none", 0>>

\* a dict without keys
EmptyDict == [k \in {} |-> k]

\* dict.get(key, default)
Get(dict, key, default) == IF key \in DOMAIN dict THEN dict[key] ELSE default

\* find_one({"_id": id}): an ObjectId and its hex string are different values
find_one(coll, id) == {d \in coll : d._id = id}

\* the ObjectIds among the _id values of a collection
Oids(coll) == {d._id[2] : d \in {x \in coll : x._id[1] = "oid"}}

InitStore(events) ==
    /\ articles = {}
    /\ risk_events = events
    /\ alerts = {}
    /\ oidc = Cardinality(Oids(events))

\* insert_one into a collection without a unique index on event_id
InsertNoIndex(coll, doc) == [ok |-> TRUE, coll |-> coll \cup {doc}]

\* articles.insert_one: the unique index on event_id (create_indexes) makes
\* the insert of a second document with the same event_id raise
\* DuplicateKeyError.
insert_article(coll, doc) ==
    IF \E d \in coll : d.event_id = doc.event_id
    THEN [ok |-> FALSE, coll |-> coll]
    ELSE [ok |-> TRUE, coll |-> coll \cup {doc}]

------------------------------------------------------------------------------
(* Extraction stage: workers.py process_risk_extraction_task,
   gemini_client.py extract_risk *)

\* settings.company_id, the _id of the seeded company profile
company_id == "company_nayara_energy"

\* settings.news_relevance_threshold, in hundredths
news_relevance_threshold == 30

\* relevance scores of articles, in hundredths: below and above the threshold
RelevanceScores == {10, 50}

\* a filter that admits every article
AdmitAll(score) == TRUE

is_relevant(score) == score >= news_relevance_threshold

\* What gemini_client.get_embedding answers: a vector, the empty list when
\* the embedding service failed (get_embedding catches the exception), or
\* an exception of its own. The vectors have whole magnitudes.
Embedding(vec) == [raised |-> FALSE, embedding |-> vec]

\* answers to the call for the article text
ArticleEmbeddings ==
    {[raised |-> TRUE, embedding |-> <<>>], Embedding(<<>>),
     Embedding(<<1, 0>>), Embedding(<<0, 1>>), Embedding(<<-1, 0>>),
     Embedding(<<0, 0>>), Embedding(<<1>>)}

\* answers to the call for the keyword text
KeywordEmbeddings ==
    {[raised |-> TRUE, embedding |-> <<>>], Embedding(<<>>), Embedding(<<3, 4>>)}

RECURSIVE dot_product(_, _)
dot_product(vec1, vec2) ==
    IF vec1 = <<>> THEN 0
    ELSE Head(vec1) * Head(vec2) + dot_product(Tail(vec1), Tail(vec2))

\* math.sqrt of a square
sqrt(n) == CHOOSE r \in 0..n : r * r = n

\* cosine_similarity, in hundredths
cosine_similarity(vec1, vec2) ==
    IF vec1 = <<>> \/ vec2 = <<>> \/ Len(vec1) # Len(vec2) THEN 0
    ELSE LET magnitude1 == sqrt(dot_product(vec1, vec1))
             magnitude2 == sqrt(dot_product(vec2, vec2)) IN
         IF magnitude1 = 0 \/ magnitude2 = 0 THEN 0
         ELSE (dot_product(vec1, vec2) * 100) \div (magnitude1 * magnitude2)

\* a score that turns the article away when there is no embedding
FailClosed(article_embedding, keyword_embedding) ==
    IF \/ article_embedding.raised \/ keyword_embedding.raised
       \/ article_embedding.embedding = <<>> \/ keyword_embedding.embedding = <<>>
    THEN 0
    ELSE cosine_similarity(article_embedding.embedding, keyword_embedding.embedding)

\* calculate_relevance_score, in hundredths, given the answers of the two
\* get_embedding calls (the second is not made when the first raised)
calculate_relevance_score(article_embedding, keyword_embedding) ==
    IF article_embedding.raised \/ keyword_embedding.raised THEN 50
    ELSE IF article_embedding.embedding = <<>> \/ keyword_embedding.embedding = <<>> THEN 50
    ELSE cosine_similarity(article_embedding.embedding, keyword_embedding.embedding)

None == [kind |-> "none"]

\* JSON documents the LLM answers with. complete: the key risk_type is there.
NotARisk ==
    [kind |-> "risk", is_risk |-> FALSE, complete |-> TRUE,
     affected_supply_chain_nodes |-> <<>>,
     severity |-> "low", is_confirmed |-> "false", time_horizon |-> "months"]
RiskRosneft ==
    [kind |-> "risk", is_risk |-> TRUE, complete |-> TRUE,
     affected_supply_chain_nodes |-> <<"Rosneft">>,
     severity |-> "high", is_confirmed |-> "uncertain", time_horizon |-> "days"]
RiskNoNodes ==
    [kind |-> "risk", is_risk |-> TRUE, complete |-> TRUE,
     affected_supply_chain_nodes |-> <<>>,
     severity |-> "high", is_confirmed |-> "uncertain", time_horizon |-> "days"]
RiskIncomplete ==
    [kind |-> "risk", is_risk |-> TRUE, complete |-> FALSE,
     affected_supply_chain_nodes |-> <<"Rosneft">>,
     severity |-> "high", is_confirmed |-> "uncertain", time_horizon |-> "days"]
\* a confirmed, immediate, critical disruption of the only LPG supplier
RiskLPG ==
    [kind |-> "risk", is_risk |-> TRUE, complete |-> TRUE,
     affected_supply_chain_nodes |-> <<"Key LPG Supplier">>,
     severity |-> "critical", is_confirmed |-> "true", time_horizon |-> "immediate"]
\* a risk that names a supplier in another spelling and a company that is no
\* supplier
RiskUnknownSupplier ==
    [kind |-> "risk", is_risk |-> TRUE, complete |-> TRUE,
     affected_supply_chain_nodes |-> <<"ROSNEFT", "Acme Oil">>,
     severity |-> "high", is_confirmed |-> "uncertain", time_horizon |-> "days"]

\* What generate_content gives: a text that is no JSON, an error of the API
\* (network, quota), or a JSON document.
LLMResponses ==
    {[kind |-> "unparseable", data |-> None], [kind |-> "error", data |-> None]}
    \cup {[kind |-> "json", data |-> d] :
            d \in {NotARisk, RiskRosneft, RiskNoNodes, RiskIncomplete,
                   RiskLPG, RiskUnknownSupplier}}

\* an extract_risk that answers a default risk when it cannot read the answer
ExtractFallback(resp) == IF resp.kind = "json" THEN resp.data ELSE RiskRosneft

\* extract_risk: the parsed document; None on JSONDecodeError and on any
\* other Exception
extract_risk(resp) == IF resp.kind = "json" THEN resp.data ELSE None

\* the external call of the handler that fails this time, if any
ExtractionFaults == {"none", "article_write", "risk_write", "push"}

\* failures that a later attempt would not meet again
Transient == {"llm_error", "article_write", "risk_write", "risk_read",
              "alert_write", "push"}

\* update_one({"event_id": e}, {"$set": {processed, risk_extracted: False}})
mark_not_risk(coll, e) ==
    {IF d.event_id = e
     THEN [d EXCEPT !.processed = TRUE, !.risk_extracted = FALSE]
     ELSE d : d \in coll}

\* what is noted for the handling: the call that failed, that of the LLM
\* unless a later one did, or the return before any Article is written
\* ("not_relevant", "not_risk")
NoteOf(resp, later) ==
    IF later # "none" THEN later
    ELSE IF resp.kind \in {"unparseable"} THEN "unparseable"
    ELSE IF resp.kind = "error" THEN "llm_error"
    ELSE "none"

\* handler of process_risk_extraction_task on the record article_data, with
\* the store and streams S = [articles, risk_events, oidc, stream]. The whole
\* body is inside try/except Exception, which only logs: raised is FALSE
\* whatever happened.
extraction_handler(article_data, score, resp, fault, S) ==
    LET risk_data == extract_risk(resp)
        article_doc == [_id |-> ObjectId(S.oidc + 1),
                        event_id |-> article_data.event_id,
                        raw_relevance_score |-> score,
                        processed |-> TRUE,
                        risk_extracted |-> TRUE]
        ins == insert_article(S.articles, article_doc)
        risk_event == [_id |-> ObjectId(S.oidc + 2),
                       article_id |-> str(article_doc._id),
                       company_id |-> company_id,
                       affected_supply_chain_nodes |->
                           risk_data.affected_supply_chain_nodes,
                       severity |-> risk_data.severity,
                       is_confirmed |-> Get(risk_data, "is_confirmed", "uncertain"),
                       time_horizon |-> risk_data.time_horizon,
                       risk_score |-> 0,
                       severity_band |-> "low"]
        S1 == [S EXCEPT !.articles = ins.coll, !.oidc = @ + 1]
        S2 == [S1 EXCEPT !.risk_events = @ \cup {risk_event}, !.oidc = @ + 1]
        S3 == [S2 EXCEPT !.stream = push_to_stream(@, STREAM_RISK_ENTITIES,
                    [risk_event_id |-> str(risk_event._id),
                     affected_nodes |-> risk_data.affected_supply_chain_nodes])]
        Out(Sx, later) ==
            [articles |-> Sx.articles, risk_events |-> Sx.risk_events,
             oidc |-> Sx.oidc, stream |-> Sx.stream,
             raised |-> FALSE, fail |-> NoteOf(resp, later)] IN
    IF ~is_relevant(score) THEN
        [articles |-> S.articles, risk_events |-> S.risk_events,
         oidc |-> S.oidc, stream |-> S.stream, raised |-> FALSE,
         fail |-> "not_relevant"]
    ELSE IF risk_data.kind = "none" THEN Out(S, "none")
    ELSE IF ~risk_data.is_risk THEN
        IF fault = "article_write" THEN Out(S, "article_write")
        ELSE Out([S EXCEPT !.articles = mark_not_risk(@, article_data.event_id)],
                 "not_risk")
    ELSE IF fault = "article_write" THEN Out(S, "article_write")
    ELSE IF ~ins.ok THEN Out([S EXCEPT !.oidc = @ + 1], "none") \* DuplicateKeyError
    ELSE IF ~risk_data.complete THEN Out(S1, "none")            \* KeyError
    ELSE IF fault = "risk_write" THEN Out(S1, "risk_write")
    ELSE IF fault = "push" THEN Out(S2, "push")
    ELSE Out(S3, "none")

\* The body of the for loop of consume_stream with the extraction handler,
\* when the LLM answers with one of Resps and the calls that can fail are
\* those of Faults.
ExtractWith(c, Resps, Faults) ==
    LET s == loop[c].stream
        S == [articles |-> articles, risk_events |-> risk_events,
              oidc |-> oidc, stream |-> stream] IN
    /\ CanDeliver(c)
    /\ s = STREAM_NORMALIZED_EVENTS
    /\ \E score \in RelevanceScores, resp \in Resps, fault \in Faults :
        LET r == extraction_handler(deserialize(stream[s][Head(loop[c].batch)]),
                                    score, resp, fault, S) IN
        /\ articles' = r.articles
        /\ risk_events' = r.risk_events
        /\ oidc' = r.oidc
        /\ stream' = r.stream
        /\ Deliver(c, IF r.raised THEN "raise" ELSE "ok", r.fail)
    /\ UNCHANGED alerts

\* The same body when the embedding service answers article_embedding and
\* keyword_embedding to the two get_embedding calls of is_relevant.
ExtractEmbedded(c, article_embedding, keyword_embedding, resp, fault) ==
    LET s == loop[c].stream
        S == [articles |-> articles, risk_events |-> risk_events,
              oidc |-> oidc, stream |-> stream]
        score == calculate_relevance_score(article_embedding, keyword_embedding) IN
    /\ CanDeliver(c)
    /\ s = STREAM_NORMALIZED_EVENTS
    /\ LET r == extraction_handler(deserialize(stream[s][Head(loop[c].batch)]),
                                   score, resp, fault, S) IN
        /\ articles' = r.articles
        /\ risk_events' = r.risk_events
        /\ oidc' = r.oidc
        /\ stream' = r.stream
        /\ Deliver(c, IF r.raised THEN "raise" ELSE "ok", r.fail)
    /\ UNCHANGED alerts

Extract(c) == ExtractWith(c, LLMResponses, ExtractionFaults)

\* entries handled more often than once, counted with their repetitions
Replays(s) ==
    Len(hlog[s]) - Cardinality({hlog[s][k].id : k \in DOMAIN hlog[s]})

\* The bus hands an entry it delivered before to the loop once more, as
\* at-least-once delivery allows (a claimed pending entry, a reset group).
Replay(c) ==
    LET s == loop[c].stream IN
    /\ loop[c].pc = "run"
    /\ loop[c].batch = <<>>
    /\ Replays(s) < MaxReplays
    /\ \E k \in DOMAIN hlog[s] :
          /\ loop' = [loop EXCEPT ![c].batch = <<hlog[s][k].id>>]
          /\ grp' = [grp EXCEPT ![s].pel = @ \cup {hlog[s][k].id}]
    /\ UNCHANGED <<stream, hlog>>

------------------------------------------------------------------------------
(* Alert stage: workers.py process_alerts_task, alert_generator.py *)

\* settings.alert_threshold_score, in hundredths of a score point
alert_threshold_score == 300

\* bands that begin above their thresholds
BandAbove(score) ==
    IF score > 1000 THEN "critical"
    ELSE IF score > 600 THEN "high"
    ELSE IF score > 300 THEN "medium"
    ELSE "low"

score_to_band(score) ==
    IF score >= 1000 THEN "critical"
    ELSE IF score >= 600 THEN "high"
    ELSE IF score >= 300 THEN "medium"
    ELSE "low"

Supplier(name, supplies, pct, status, single) ==
    [name |-> name, company_id |-> company_id, supplies |-> supplies,
     supply_volume_pct |-> pct, status |-> status, is_single_source |-> single]

\* the suppliers seed_data.py stores
SeedSuppliers ==
    {Supplier("Rosneft", <<"crude oil">>, 65, "active", FALSE),
     Supplier("ADNOC", <<"crude oil">>, 35, "active", FALSE),
     Supplier("Saudi Aramco", <<"crude oil">>, 0, "alternate", FALSE),
     Supplier("ONGC", <<"crude oil">>, 0, "alternate", FALSE),
     Supplier("BP", <<"crude oil", "naphtha">>, 0, "pre_qualified", FALSE),
     Supplier("Shell", <<"crude oil", "LPG">>, 0, "pre_qualified", FALSE)}

\* a supplier that alone delivers all of the LPG
SupplierLPG == Supplier("Key LPG Supplier", <<"LPG">>, 100, "active", TRUE)

\* a supplier that delivers a good half of the naphtha
SupplierNaphtha == Supplier("Naphtha Trader", <<"naphtha">>, 55, "active", FALSE)

\* the suppliers collection
suppliers == SeedSuppliers \cup {SupplierLPG, SupplierNaphtha}

\* the companies collection as seed_data.py leaves it
Companies == {company_id}

\* names of the seeded suppliers, which are nodes of the supply graph
SupplierNames == {"Rosneft", "ADNOC", "Saudi Aramco", "ONGC", "BP", "Shell"}

\* a gate that looks at the affected nodes only
GateNodesOnly(risk_event) == risk_event.affected_supply_chain_nodes # <<>>

should_create_alert(risk_event) ==
    IF risk_event.risk_score < alert_threshold_score THEN FALSE
    ELSE IF risk_event.affected_supply_chain_nodes = <<>> THEN FALSE
    ELSE TRUE

\* generate_alert_title, without the words for the risk type
generate_alert_title(risk_event) ==
    <<"Risk: ", IF risk_event.affected_supply_chain_nodes # <<>>
                THEN risk_event.affected_supply_chain_nodes[1]
                ELSE "Supply Chain">>

\* create_alert on the store S = [alerts, oidc]: alert_id is the string of
\* the new _id, or None. A supplier that is not found is logged and the
\* material of the Alert is "unknown". failed: a call to the store raised, which the
\* except clause turns into None.
create_alert(risk_event, failed, S) ==
    LET supplier ==
            {x \in suppliers :
                /\ x.name = risk_event.affected_supply_chain_nodes[1]
                /\ x.company_id = risk_event.company_id}
        alert == [_id |-> ObjectId(S.oidc + 1),
                  risk_event_id |-> str(risk_event._id),
                  company_id |-> risk_event.company_id,
                  severity_band |-> risk_event.severity_band,
                  risk_score |-> risk_event.risk_score,
                  title |-> generate_alert_title(risk_event),
                  affected_supplier |-> risk_event.affected_supply_chain_nodes[1],
                  affected_material |->
                      IF supplier = {} THEN "unknown"
                      ELSE (CHOOSE x \in supplier : TRUE).supplies[1]] IN
    IF ~should_create_alert(risk_event)
    THEN [alerts |-> S.alerts, oidc |-> S.oidc, alert_id |-> NoneId]
    ELSE IF failed THEN [alerts |-> S.alerts, oidc |-> S.oidc, alert_id |-> NoneId]
    ELSE IF risk_event.company_id \notin Companies
         THEN [alerts |-> S.alerts, oidc |-> S.oidc, alert_id |-> NoneId]
    ELSE IF \E x \in supplier : x.supplies = <<>>     \* IndexError
         THEN [alerts |-> S.alerts, oidc |-> S.oidc, alert_id |-> NoneId]
    ELSE [alerts |-> S.alerts \cup {alert}, oidc |-> S.oidc + 1,
          alert_id |-> str(alert._id)]

\* the external call of the alert handler that fails this time, if any
AlertFaults == {"none", "risk_read", "risk_write", "alert_write", "push"}

\* handler of process_alerts_task on the record risk_score_data, with
\* S = [risk_events, alerts, oidc, stream]. The body is inside try/except
\* Exception, which only logs. The propagation written to the RiskEvent is
\* not part of the documents of this model.
alert_handler(risk_score_data, fault, S) ==
    LET found == find_one(S.risk_events, risk_score_data.risk_event_id)
        risk_event == CHOOSE r \in found : TRUE
        propagates == risk_score_data.affected_supplier \in SupplierNames
        made == create_alert(risk_event, fault = "alert_write",
                             [alerts |-> S.alerts, oidc |-> S.oidc])
        alert == find_one(made.alerts, made.alert_id)
        S1 == [S EXCEPT !.alerts = made.alerts, !.oidc = made.oidc]
        S2 == [S1 EXCEPT !.stream = push_to_stream(@, STREAM_NEW_ALERTS,
                    [alert_id |-> made.alert_id,
                     severity_band |-> risk_event.severity_band,
                     risk_score |-> risk_event.risk_score,
                     title |-> IF alert # {} THEN (CHOOSE a \in alert : TRUE).title
                               ELSE <<>>])]
        Out(Sx, note) ==
            [risk_events |-> Sx.risk_events, alerts |-> Sx.alerts,
             oidc |-> Sx.oidc, stream |-> Sx.stream,
             raised |-> FALSE, fail |-> note] IN
    IF fault = "risk_read" THEN Out(S, "risk_read")
    ELSE IF found = {} THEN Out(S, "none")
    ELSE IF propagates /\ fault = "risk_write" THEN Out(S, "risk_write")
    ELSE IF made.alert_id = NoneId
         THEN Out(S1, IF fault = "alert_write" /\ should_create_alert(risk_event)
                      THEN "alert_write" ELSE "none")
    ELSE IF fault = "push" THEN Out(S1, "push")
    ELSE Out(S2, "none")

\* The body of the for loop of consume_stream with the alert handler, when
\* the calls that can fail are those of Faults.
AlertWith(c, Faults) ==
    LET s == loop[c].stream
        S == [risk_events |-> risk_events, alerts |-> alerts,
              oidc |-> oidc, stream |-> stream] IN
    /\ CanDeliver(c)
    /\ s = STREAM_RISK_SCORES
    /\ \E fault \in Faults :
        LET r == alert_handler(deserialize(stream[s][Head(loop[c].batch)]), fault, S) IN
        /\ risk_events' = r.risk_events
        /\ alerts' = r.alerts
        /\ oidc' = r.oidc
        /\ stream' = r.stream
        /\ Deliver(c, IF r.raised THEN "raise" ELSE "ok", r.fail)
    /\ UNCHANGED articles

Alert(c) == AlertWith(c, AlertFaults)

------------------------------------------------------------------------------
(* Scoring stage: risk_engine/scoring.py, workers.py process_risk_scoring_task.
   Python computes with floats; here a number is the exact fraction n/d in
   lowest terms, so that what is compared and rounded is the value the
   formulas denote. *)

RECURSIVE Gcd(_, _)
Gcd(a, b) == IF b = 0 THEN a ELSE Gcd(b, a % b)

Frac(n, d) == LET g == Gcd(n, d) IN [n |-> n \div g, d |-> d \div g]
Add(x, y) == Frac(x.n * y.d + y.n * x.d, x.d * y.d)
Mul(x, y) == Frac(x.n * y.n, x.d * y.d)
Div(x, y) == Frac(x.n * y.d, x.d * y.n)
Less(x, y) == x.n * y.d < y.n * x.d
MinF(x, y) == IF Less(y, x) THEN y ELSE x
MaxF(x, y) == IF Less(x, y) THEN y ELSE x

\* round(x, 2) with scale = 100, round(x, 3) with scale = 1000: the number of
\* 1/scale nearest to x, the even one of the two when x is half way.
round(x, scale) ==
    LET t == x.n * scale
        q == t \div x.d
        r == t % x.d IN
    IF 2 * r < x.d THEN q
    ELSE IF 2 * r > x.d THEN q + 1
    ELSE IF q % 2 = 0 THEN q ELSE q + 1

\* the whole hundredths in x: x >= k/100 iff Hundredths(x) >= k
Hundredths(x) == (x.n * 100) \div x.d

\* str.lower() on the names of suppliers and materials that occur
LowerOf ==
    ("Rosneft" :> "rosneft") @@ ("ADNOC" :> "adnoc")
        @@ ("Saudi Aramco" :> "saudi aramco") @@ ("ONGC" :> "ongc")
        @@ ("BP" :> "bp") @@ ("Shell" :> "shell")
        @@ ("Key LPG Supplier" :> "key lpg supplier") @@ ("LPG" :> "lpg")
        @@ ("Naphtha Trader" :> "naphtha trader")
        @@ ("ROSNEFT" :> "rosneft") @@ ("Acme Oil" :> "acme oil")
lower(name) == Get(LowerOf, name, name)

\* the company profile seed_data.py stores; it has no key "suppliers"
company_profile ==
    [_id |-> company_id,
     inventory_days |-> ("crude oil" :> 15) @@ ("naphtha" :> 7) @@ ("LPG" :> 10),
     material_criticality |->
         ("crude oil" :> 10) @@ ("naphtha" :> 6) @@ ("LPG" :> 5)]

\* count_alternate_suppliers: the suppliers of the profile's list "suppliers"
\* that deliver the material and can be used, but one; the list is a
\* sequence here.
count_alternate_suppliers(material, profile) ==
    IF "suppliers" \notin DOMAIN profile THEN 0
    ELSE LET list == profile.suppliers
             alternates ==
                 {k \in DOMAIN list :
                     /\ \E j \in DOMAIN Get(list[k], "supplies", <<>>) :
                           lower(list[k].supplies[j]) = lower(material)
                     /\ Get(list[k], "status", "active") \in
                           {"active", "alternate", "pre_qualified"}}
             n == Cardinality(alternates) - 1 IN
         IF n > 0 THEN n ELSE 0

prob_map ==
    [critical |-> Frac(95, 100), high |-> Frac(80, 100),
     medium |-> Frac(55, 100), low |-> Frac(25, 100)]

urgency_map ==
    [immediate |-> Frac(2, 1), days |-> Frac(3, 2),
     weeks |-> Frac(1, 1), months |-> Frac(1, 2)]

\* an impact that is not brought into its range
NoClamp(lo, hi, x) == x

\* max(lo, min(hi, x))
clamp(lo, hi, x) == MaxF(lo, MinF(hi, x))

\* calculate_risk_score. risk_score and the impact component are in
\* hundredths, the probability component in thousandths, as round() leaves
\* them; urgency and mitigation are fractions. supplies[0] of an empty list
\* raises IndexError. is_confirmed is a string.
calculate_risk_score(risk_data, supplier, profile) ==
    LET severity == Get(risk_data, "severity", "medium")
        base == Get(prob_map, severity, Frac(55, 100))
        is_confirmed == Get(risk_data, "is_confirmed", "uncertain")
        probability ==
            IF is_confirmed = "uncertain" THEN Mul(base, Frac(7, 10))
            ELSE IF is_confirmed = "false" THEN Mul(base, Frac(3, 10))
            ELSE base
        dependency_ratio == Frac(Get(supplier, "supply_volume_pct", 50), 100)
        supplies == Get(supplier, "supplies", <<"unknown">>)
        material == supplies[1]
        material_criticality ==
            Get(Get(profile, "material_criticality", EmptyDict), material, 5)
        inventory_days == Get(Get(profile, "inventory_days", EmptyDict), material, 0)
        buffer_score == Div(Frac(1, 1), Add(Frac(1, 1), Frac(inventory_days, 30)))
        impact ==
            clamp(Frac(1, 1), Frac(10, 1),
                  Mul(Mul(Mul(dependency_ratio, Frac(material_criticality, 10)),
                          buffer_score),
                      Frac(10, 1)))
        time_horizon == Get(risk_data, "time_horizon", "weeks")
        urgency == Get(urgency_map, time_horizon, Frac(1, 1))
        num_alternates == count_alternate_suppliers(material, profile)
        mitigation ==
            IF Get(supplier, "is_single_source", FALSE) THEN Frac(1, 2)
            ELSE Add(Frac(1, 1), MinF(Mul(Frac(num_alternates, 1), Frac(2, 10)),
                                      Frac(1, 1)))
        score == Div(Mul(Mul(probability, impact), urgency), mitigation) IN
    IF supplies = <<>> THEN [raised |-> TRUE]
    ELSE [raised |-> FALSE,
          risk_score |-> round(score, 100),
          severity_band |-> score_to_band(Hundredths(score)),
          components |-> [probability |-> round(probability, 1000),
                          impact |-> round(impact, 100),
                          urgency |-> urgency,
                          mitigation |-> mitigation]]

\* the external call of the scoring handler that fails this time, if any
ScoringFaults == {"none", "risk_read", "risk_write", "push"}

\* supplier_map.get(name), then suppliers.find_one({name, company_id}): both
\* read the suppliers collection
find_supplier(name) ==
    {s \in suppliers : s.name = name /\ s.company_id = company_profile._id}

\* an update that matches no document
NoUpdate(coll, id, score_result) == coll

\* update_one({"_id": id}, {"$set": {risk_score, severity_band, ...}}); the
\* components are not part of the documents here
set_score(coll, id, score_result) ==
    {IF d._id = id
     THEN [d EXCEPT !.risk_score = score_result.risk_score,
                    !.severity_band = score_result.severity_band]
     ELSE d : d \in coll}

\* handler of process_risk_scoring_task on the record risk_entity_data, with
\* S = [risk_events, stream]. The body is inside try/except Exception, which
\* only logs.
scoring_handler(risk_entity_data, fault, S) ==
    LET risk_event_id == risk_entity_data.risk_event_id
        found == find_one(S.risk_events, risk_event_id)
        risk_event == CHOOSE r \in found : TRUE
        affected_nodes == Get(risk_event, "affected_supply_chain_nodes", <<>>)
        supplier_name == affected_nodes[1]
        supplier == find_supplier(supplier_name)
        score_result ==
            calculate_risk_score(risk_event, CHOOSE s \in supplier : TRUE,
                                 company_profile)
        S1 == [S EXCEPT !.risk_events = set_score(@, risk_event_id, score_result)]
        S2 == [S1 EXCEPT !.stream = push_to_stream(@, STREAM_RISK_SCORES,
                    [risk_event_id |-> risk_event_id,
                     risk_score |-> score_result.risk_score,
                     severity_band |-> score_result.severity_band,
                     affected_supplier |-> supplier_name])]
        Out(Sx, note) ==
            [risk_events |-> Sx.risk_events, stream |-> Sx.stream,
             raised |-> FALSE, fail |-> note] IN
    IF fault = "risk_read" THEN Out(S, "risk_read")
    ELSE IF found = {} THEN Out(S, "none")
    ELSE IF affected_nodes = <<>> THEN Out(S, "none")
    ELSE IF supplier = {} THEN Out(S, "none")
    ELSE IF score_result.raised THEN Out(S, "none")
    ELSE IF fault = "risk_write" THEN Out(S, "risk_write")
    ELSE IF fault = "push" THEN Out(S1, "push")
    ELSE Out(S2, "none")

\* The body of the for loop of consume_stream with the scoring handler, when
\* the calls that can fail are those of Faults.
ScoreWith(c, Faults) ==
    LET s == loop[c].stream
        S == [risk_events |-> risk_events, stream |-> stream] IN
    /\ CanDeliver(c)
    /\ s = STREAM_RISK_ENTITIES
    /\ \E fault \in Faults :
        LET r == scoring_handler(deserialize(stream[s][Head(loop[c].batch)]), fault, S) IN
        /\ risk_events' = r.risk_events
        /\ stream' = r.stream
        /\ Deliver(c, IF r.raised THEN "raise" ELSE "ok", r.fail)
    /\ UNCHANGED <<articles, alerts, oidc>>

Score(c) == ScoreWith(c, ScoringFaults)

------------------------------------------------------------------------------
(* Propagation: risk_engine/graph_propagation.py propagate_risk. A graph is
   [nodes, succ]: nodes maps a node id to its attributes, succ maps a node id
   to the sequence of its successors with the attributes of the edge, in the
   order G.successors gives them. *)

\* a node that is no more vulnerable for being a single source
NoVulnerability(successor_data) == Frac(1, 1)

\* a single source taken to be twice as vulnerable
DoubleVulnerability(successor_data) ==
    IF Get(successor_data, "is_single_source", FALSE) THEN Frac(2, 1) ELSE Frac(1, 1)

\* single-source nodes are more vulnerable
vulnerability(successor_data) ==
    IF Get(successor_data, "is_single_source", FALSE) THEN Frac(3, 2) ELSE Frac(1, 1)

\* propagated[key] = value
SetItem(dict, key, value) ==
    [k \in DOMAIN dict \cup {key} |-> IF k = key THEN value ELSE dict[k]]

\* the for loop over the successors of node from the i-th on: st is
\* [propagated, queue]
RECURSIVE PropagateTo(_, _, _, _, _, _)
PropagateTo(G, node, score, threshold, i, st) ==
    IF i > Len(G.succ[node]) THEN st
    ELSE LET successor == G.succ[node][i].to
             dep_weight == Get(G.succ[node][i], "weight", Frac(1, 2))
             propagated_score ==
                 Mul(Mul(score, dep_weight),
                     Add(Frac(1, 2), Mul(vulnerability(G.nodes[successor]), Frac(1, 2))))
             update ==
                 /\ Less(threshold, propagated_score)
                 /\ \/ successor \notin DOMAIN st.propagated
                    \/ Less(st.propagated[successor], propagated_score) IN
         PropagateTo(G, node, score, threshold, i + 1,
             IF update
             THEN [propagated |-> SetItem(st.propagated, successor,
                                          Frac(round(propagated_score, 100), 100)),
                   queue |-> Append(st.queue, <<successor, propagated_score>>)]
             ELSE st)

\* a pass that goes through the successors of a node it met before
ExpandAgain(G, threshold, visited, st) ==
    [visited |-> visited \cup {Head(st.queue)[1]},
     st |-> PropagateTo(G, Head(st.queue)[1], Head(st.queue)[2], threshold, 1,
                        [st EXCEPT !.queue = Tail(@)])]

\* one pass of the while loop: pop the head of the queue, skip a visited
\* node, else mark it visited and go through its successors
PropagateBody(G, threshold, visited, st) ==
    LET node == Head(st.queue)[1]
        score == Head(st.queue)[2]
        popped == [st EXCEPT !.queue = Tail(@)] IN
    IF node \in visited THEN [visited |-> visited, st |-> popped]
    ELSE [visited |-> visited \cup {node},
          st |-> PropagateTo(G, node, score, threshold, 1, popped)]

\* the while loop
RECURSIVE PropagateLoop(_, _, _, _)
PropagateLoop(G, threshold, visited, st) ==
    IF st.queue = <<>> THEN st.propagated
    ELSE LET pass == PropagateBody(G, threshold, visited, st) IN
         PropagateLoop(G, threshold, pass.visited, pass.st)

propagate_risk(G, risk_node_id, initial_score, threshold) ==
    PropagateLoop(G, threshold, {},
                  [propagated |-> (risk_node_id :> initial_score),
                   queue |-> <<<<risk_node_id, initial_score>>>>])

------------------------------------------------------------------------------
(* The supply graph: risk_engine/graph_propagation.py build_supply_graph *)

\* DiGraph.add_node: a new node has no successors; the attributes of a node
\* that is there are updated
add_node(G, id, attrs) ==
    [nodes |-> SetItem(G.nodes, id, attrs @@ Get(G.nodes, id, EmptyDict)),
     succ |-> IF id \in DOMAIN G.succ THEN G.succ ELSE SetItem(G.succ, id, <<>>)]

\* DiGraph.add_edge: nodes that are missing are added; an edge that is there
\* keeps its place and gets the attributes
add_edge(G, u, v, attrs) ==
    LET G1 == IF u \in DOMAIN G.nodes THEN G ELSE add_node(G, u, EmptyDict)
        G2 == IF v \in DOMAIN G1.nodes THEN G1 ELSE add_node(G1, v, EmptyDict)
        edge == [to |-> v] @@ attrs
        old == G2.succ[u] IN
    [G2 EXCEPT !.succ[u] =
        IF \E i \in DOMAIN old : old[i].to = v
        THEN [i \in DOMAIN old |-> IF old[i].to = v THEN edge ELSE old[i]]
        ELSE Append(old, edge)]

\* the target of the edge of a supplier: both branches of the test on the
\* tier give the company
target_node(supplier, company) == company

\* the inner for loop: the upstream suppliers of supplier from the i-th on
RECURSIVE AddUpstreams(_, _, _, _)
AddUpstreams(G, supplier, material, i) ==
    LET ups == Get(supplier, "upstream_suppliers", <<>>) IN
    IF i > Len(ups) THEN G
    ELSE LET upstream == ups[i]
             upstream_id == supplier._id \o "_upstream_" \o upstream.name
             G1 == add_node(G, upstream_id,
                            [type |-> "supplier", name |-> upstream.name,
                             tier |-> Get(supplier, "tier", 1) + 1,
                             is_upstream |-> TRUE])
             G2 == add_edge(G1, upstream_id, supplier._id,
                            [weight |-> Frac(Get(upstream, "supply_volume_pct", 100), 100),
                             material |-> material]) IN
         AddUpstreams(G2, supplier, material, i + 1)

\* the outer for loop: the suppliers of the company from the i-th on
RECURSIVE AddSuppliers(_, _, _, _)
AddSuppliers(G, list, company, i) ==
    IF i > Len(list) THEN G
    ELSE LET supplier == list[i]
             supplies == Get(supplier, "supplies", <<>>)
             material == IF supplies # <<>> THEN supplies[1] ELSE "unknown"
             G1 == add_node(G, supplier._id,
                            [type |-> "supplier", name |-> supplier.name,
                             tier |-> Get(supplier, "tier", 1),
                             is_single_source |-> Get(supplier, "is_single_source", FALSE)])
             G2 == add_edge(G1, supplier._id, target_node(supplier, company),
                            [weight |-> Frac(Get(supplier, "supply_volume_pct", 50), 100),
                             material |-> material,
                             tier |-> Get(supplier, "tier", 1)]) IN
         AddSuppliers(AddUpstreams(G2, supplier, material, 1), list, company, i + 1)

\* build_supply_graph(db, company_id), coll being the suppliers collection in
\* the order find returns it
build_supply_graph(coll, company) ==
    LET G0 == [nodes |-> << >>, succ |-> << >>] IN
    IF company \notin Companies THEN G0
    ELSE AddSuppliers(add_node(G0, company, [type |-> "company", tier |-> 0]),
                      SelectSeq(coll, LAMBDA d : d.company_id = company),
                      company, 1)

------------------------------------------------------------------------------
(* Ranking of alternates: recommender/supplier_finder.py. The suppliers
   collection is the sequence of its documents in the order find returns
   them; scores are in hundredths. *)

max_results == 5

score_alternate_supplier(candidate, disrupted, required_volume) ==
    LET geo_score == IF Get(candidate, "country", None) # Get(disrupted, "country", None)
                     THEN Frac(1, 1) ELSE Frac(3, 10)
        candidate_capacity == Get(candidate, "max_capacity", 0)
        cap_score == IF candidate_capacity > 0
                     THEN MinF(Frac(candidate_capacity, required_volume), Frac(1, 1))
                     ELSE Frac(1, 2)
        rel_score == IF Get(candidate, "approved_vendor", FALSE) THEN Frac(1, 1)
                     ELSE IF Get(candidate, "pre_qualified", FALSE) THEN Frac(8, 10)
                     ELSE Frac(4, 10)
        esg_score == Frac(Get(candidate, "esg_score", 50), 100)
        \* financial_health_score and switching_cost_estimate are held in tenths
        financial_score == Frac(Get(candidate, "financial_health_score", 50), 100)
        switch_score == Add(Frac(1, 1),
                            Frac(0 - Get(candidate, "switching_cost_estimate", 50), 100))
        lead_time_weeks == Get(candidate, "lead_time_weeks", 8)
        lead_score == Div(Frac(1, 1), Add(Frac(1, 1), Frac(lead_time_weeks, 4)))
        final_score ==
            Mul(Add(Mul(geo_score, Frac(20, 100)),
                Add(Mul(cap_score, Frac(25, 100)),
                Add(Mul(rel_score, Frac(20, 100)),
                Add(Mul(esg_score, Frac(10, 100)),
                Add(Mul(financial_score, Frac(10, 100)),
                Add(Mul(switch_score, Frac(5, 100)),
                    Mul(lead_score, Frac(10, 100)))))))), Frac(10, 1)) IN
    IF candidate_capacity > 0 /\ required_volume = 0
    THEN [raised |-> TRUE]  \* ZeroDivisionError
    ELSE [raised |-> FALSE,
          supplier_id |-> candidate._id,
          name |-> candidate.name,
          score |-> round(final_score, 100),
          lead_time_weeks |-> lead_time_weeks,
          approved_vendor |-> Get(candidate, "approved_vendor", FALSE),
          country |-> candidate.country,
          score_breakdown |->
              [geographic_diversity |-> round(geo_score, 100),
               capacity |-> round(cap_score, 100),
               relationship |-> round(rel_score, 100),
               esg |-> round(esg_score, 100),
               financial |-> round(financial_score, 100),
               switching_cost |-> round(switch_score, 100),
               lead_time |-> round(lead_score, 100)]]

\* x is an element of the list
InSeq(x, seq) == \E i \in 1..Len(seq) : seq[i] = x

\* the list left as it is
KeepOrder(seq) == seq

\* list.sort(key = score, reverse = True): a stable sort, elements of equal
\* score keep the order they had
RECURSIVE sort_by_score(_)
sort_by_score(seq) ==
    IF seq = <<>> THEN <<>>
    ELSE LET rest == sort_by_score(SubSeq(seq, 1, Len(seq) - 1))
             x == seq[Len(seq)]
             \* x goes behind every element whose score is not lower
             k == Cardinality({i \in 1..Len(rest) : rest[i].score >= x.score}) IN
         SubSeq(rest, 1, k) \o <<x>> \o SubSeq(rest, k + 1, Len(rest))

find_alternates(disrupted_supplier_id, coll, max) ==
    LET found == SelectSeq(coll, LAMBDA d : d._id = disrupted_supplier_id) IN
    IF found = <<>> THEN <<>>
    ELSE LET disrupted == found[1]
             material == Get(disrupted, "supplies", <<"unknown">>)[1]
             required_volume == Get(disrupted, "supply_volume_pct", 50)
             company == Get(disrupted, "company_id", None)
             candidates ==
                 SelectSeq(coll, LAMBDA d :
                     /\ InSeq(material, Get(d, "supplies", <<>>))
                     /\ d._id # disrupted_supplier_id
                     /\ Get(d, "status", None) \in {"active", "alternate", "pre_qualified"}
                     /\ Get(d, "company_id", None) = company)
             scored == [i \in 1..Len(candidates) |->
                           score_alternate_supplier(candidates[i], disrupted,
                                                    required_volume)]
             scored_alternates == SelectSeq(scored, LAMBDA r : ~r.raised)
             sorted == sort_by_score(scored_alternates) IN
         SubSeq(sorted, 1, Min(max, Len(sorted)))

------------------------------------------------------------------------------
(* consume_stream with an arbitrary handler on one stream *)

BusStream == STREAM_NORMALIZED_EVENTS

BusRecords == {[event_id |-> "e1"], [event_id |-> "e2"]}

InitBus ==
    /\ stream = [s \in Streams |-> <<>>]
    /\ grp = [s \in Streams |-> NoGroup]
    /\ loop = [c \in {"consumer_1"} |-> [stream |-> BusStream, pc |-> "stopped", batch |-> <<>>]]
    /\ hlog = [s \in Streams |-> <<>>]
    /\ IdleFp
    /\ IdleFn
    /\ InitFetch({})
    /\ InitStore({})

\* A producer calls push_to_stream.
Push ==
    /\ Len(stream[BusStream]) < MaxRecords
    /\ \E data \in BusRecords : stream' = XAdd(stream, BusStream, data)
    /\ UNCHANGED <<grp, loop, hlog, fpVars, fnVars, fetchVars, storeVars>>

\* The handler passed to consume_stream either returns or raises.
HandleAny(c) ==
    /\ CanDeliver(c)
    /\ \E res \in {"ok", "raise"} : Deliver(c, res, "none")
    /\ UNCHANGED <<stream, fpVars, fnVars, fetchVars, storeVars>>

NextBus ==
    \/ Push
    \/ \E c \in DOMAIN loop : StartLoop(c) /\ UNCHANGED <<fpVars, fnVars, fetchVars, storeVars>>
    \/ \E c \in DOMAIN loop : ReadBatch(c) /\ UNCHANGED <<fpVars, fnVars, fetchVars, storeVars>>
    \/ \E c \in DOMAIN loop : HandleAny(c)
    \/ \E c \in DOMAIN loop : Interrupt(c) /\ UNCHANGED <<fpVars, fnVars, fetchVars, storeVars>>

SpecBus == InitBus /\ [][NextBus]_vars

\* The loop is a running process: it starts, reads and handles whenever it can.
FairBus ==
    /\ InitBus /\ [][NextBus]_vars
    /\ \A c \in {"consumer_1"} :
        /\ WF_vars(StartLoop(c) /\ UNCHANGED <<fpVars, fnVars, fetchVars, storeVars>>)
        /\ WF_vars(ReadBatch(c) /\ UNCHANGED <<fpVars, fnVars, fetchVars, storeVars>>)
        /\ WF_vars(HandleAny(c))

------------------------------------------------------------------------------
(* Competing consumers: Celery beat starts the worker task every 60 seconds,
   and each start is one more consume_stream loop of the same group, under
   the same consumer name. The group is there from an earlier start; no
   handler raises and no loop is interrupted. *)

\* the consume_stream loops of extraction_worker_1, by the start that made them
CompetingLoops == {"extraction_worker_1 (1)", "extraction_worker_1 (2)"}

InitCompete ==
    /\ stream = [s \in Streams |-> <<>>]
    /\ grp = [s \in Streams |->
                IF s = BusStream
                THEN [exists |-> TRUE, start |-> 0, last |-> 0, pel |-> {}]
                ELSE NoGroup]
    /\ loop = [c \in CompetingLoops |->
                [stream |-> BusStream, pc |-> "stopped", batch |-> <<>>]]
    /\ hlog = [s \in Streams |-> <<>>]
    /\ IdleFp
    /\ IdleFn
    /\ InitFetch({})
    /\ InitStore({})

\* The handler passed to consume_stream returns.
HandleOk(c) ==
    /\ CanDeliver(c)
    /\ Deliver(c, "ok", "none")
    /\ UNCHANGED <<stream, fpVars, fnVars, fetchVars, storeVars>>

NextCompete ==
    \/ Push
    \/ \E c \in DOMAIN loop : StartLoop(c) /\ UNCHANGED <<fpVars, fnVars, fetchVars, storeVars>>
    \/ \E c \in DOMAIN loop : ReadBatch(c) /\ UNCHANGED <<fpVars, fnVars, fetchVars, storeVars>>
    \/ \E c \in DOMAIN loop : HandleOk(c)

SpecCompete == InitCompete /\ [][NextCompete]_vars

------------------------------------------------------------------------------
(* generate_fingerprint applied to pairs of articles *)

InitFingerprint ==
    /\ stream = [s \in Streams |-> <<>>]
    /\ grp = [s \in Streams |-> NoGroup]
    /\ loop = << >>
    /\ hlog = [s \in Streams |-> <<>>]
    /\ InitFp
    /\ IdleFn
    /\ InitFetch({})
    /\ InitStore({})

NextFingerprint == Fingerprint

SpecFingerprint == InitFingerprint /\ [][NextFingerprint]_vars

------------------------------------------------------------------------------
(* Fetch cycles of one worker process, and the clock *)

InitDedup ==
    /\ stream = [s \in Streams |-> <<>>]
    /\ grp = [s \in Streams |-> NoGroup]
    /\ loop = << >>
    /\ hlog = [s \in Streams |-> <<>>]
    /\ IdleFp
    /\ IdleFn
    /\ InitFetch({"fetch_1"})
    /\ InitStore({})

NextDedup ==
    \/ \E f \in DOMAIN fetcher : StartFetch(f) /\ UNCHANGED <<grp, loop, hlog, fpVars, fnVars, storeVars>>
    \/ \E f \in DOMAIN fetcher, raw \in RawArticles :
          FetchArticle(f, raw) /\ UNCHANGED <<grp, loop, hlog, fpVars, fnVars, storeVars>>
    \/ \E f \in DOMAIN fetcher, pushed \in BOOLEAN :
          PushArticle(f, pushed) /\ UNCHANGED <<grp, loop, hlog, fpVars, fnVars, storeVars>>
    \/ \E f \in DOMAIN fetcher : EndFetch(f) /\ UNCHANGED <<grp, loop, hlog, fpVars, fnVars, storeVars>>
    \/ Tick(MaxTicks * TickSeconds) /\ UNCHANGED <<grp, loop, hlog, fpVars, fnVars, storeVars>>

SpecDedup == InitDedup /\ [][NextDedup]_vars

------------------------------------------------------------------------------
(* Fetch cycles of several worker processes at the same time, all within
   the TTL of the first fingerprint *)

InitFetchAll ==
    /\ stream = [s \in Streams |-> <<>>]
    /\ grp = [s \in Streams |-> NoGroup]
    /\ loop = << >>
    /\ hlog = [s \in Streams |-> <<>>]
    /\ IdleFp
    /\ IdleFn
    /\ InitFetch(Fetchers)
    /\ InitStore({})

NextFetchAll ==
    \/ \E f \in DOMAIN fetcher : StartFetch(f) /\ UNCHANGED <<grp, loop, hlog, fpVars, fnVars, storeVars>>
    \/ \E f \in DOMAIN fetcher, raw \in RawArticles :
          FetchArticle(f, raw) /\ UNCHANGED <<grp, loop, hlog, fpVars, fnVars, storeVars>>
    \/ \E f \in DOMAIN fetcher, pushed \in BOOLEAN :
          PushArticle(f, pushed) /\ UNCHANGED <<grp, loop, hlog, fpVars, fnVars, storeVars>>
    \/ \E f \in DOMAIN fetcher : EndFetch(f) /\ UNCHANGED <<grp, loop, hlog, fpVars, fnVars, storeVars>>
    \/ Tick(ttl_seconds - 1) /\ UNCHANGED <<grp, loop, hlog, fpVars, fnVars, storeVars>>

SpecFetchAll == InitFetchAll /\ [][NextFetchAll]_vars

------------------------------------------------------------------------------
(* The extraction worker on normalized_events, fed by a fetch cycle *)

\* fetch_all_sources pushes the next novel article.
Publish ==
    /\ Len(stream[STREAM_NORMALIZED_EVENTS]) < MaxPublished
    /\ stream' = push_to_stream(stream, STREAM_NORMALIZED_EVENTS,
                                normalize_newsapi_article(RawPortStrike, uuidc + 1))
    /\ uuidc' = uuidc + 1
    /\ UNCHANGED <<grp, loop, hlog, dedup, now, fetcher, fetchResults, dlog,
                   fpVars, fnVars, storeVars>>

InitExtract ==
    /\ stream = [s \in Streams |-> <<>>]
    /\ grp = [s \in Streams |-> NoGroup]
    /\ loop = [c \in {"extraction_worker_1"} |->
                [stream |-> STREAM_NORMALIZED_EVENTS, pc |-> "stopped", batch |-> <<>>]]
    /\ hlog = [s \in Streams |-> <<>>]
    /\ IdleFp
    /\ IdleFn
    /\ InitFetch({})
    /\ InitStore({})

NextExtract ==
    \/ Publish
    \/ \E c \in DOMAIN loop : StartLoop(c) /\ UNCHANGED <<fpVars, fnVars, fetchVars, storeVars>>
    \/ \E c \in DOMAIN loop : ReadBatch(c) /\ UNCHANGED <<fpVars, fnVars, fetchVars, storeVars>>
    \/ \E c \in DOMAIN loop : Extract(c) /\ UNCHANGED <<fpVars, fnVars, fetchVars>>
    \/ \E c \in DOMAIN loop : Interrupt(c) /\ UNCHANGED <<fpVars, fnVars, fetchVars, storeVars>>

SpecExtract == InitExtract /\ [][NextExtract]_vars

------------------------------------------------------------------------------
(* The extraction worker when the bus delivers records again: the worker
   runs and two articles have been published *)

PublishedArticles ==
    <<serialize(normalize_newsapi_article(RawPortStrike, 1)),
      serialize(normalize_newsapi_article(RawRefineryFire, 2))>>

InitReplay ==
    /\ stream = [s \in Streams |->
                  IF s = STREAM_NORMALIZED_EVENTS THEN PublishedArticles ELSE <<>>]
    /\ grp = [s \in Streams |->
               IF s = STREAM_NORMALIZED_EVENTS
               THEN [exists |-> TRUE, start |-> 0, last |-> 0, pel |-> {}]
               ELSE NoGroup]
    /\ loop = [c \in {"extraction_worker_1"} |->
                [stream |-> STREAM_NORMALIZED_EVENTS, pc |-> "run", batch |-> <<>>]]
    /\ hlog = [s \in Streams |-> <<>>]
    /\ IdleFp
    /\ IdleFn
    /\ dedup = << >>
    /\ now = 0
    /\ fetcher = << >>
    /\ fetchResults = NoCounts
    /\ uuidc = Len(PublishedArticles)
    /\ dlog = << >>
    /\ InitStore({})

NextReplay ==
    \/ \E c \in DOMAIN loop : ReadBatch(c) /\ UNCHANGED <<fpVars, fnVars, fetchVars, storeVars>>
    \/ \E c \in DOMAIN loop : Extract(c) /\ UNCHANGED <<fpVars, fnVars, fetchVars>>
    \/ \E c \in DOMAIN loop : Replay(c) /\ UNCHANGED <<fpVars, fnVars, fetchVars, storeVars>>

SpecReplay == InitReplay /\ [][NextReplay]_vars

------------------------------------------------------------------------------
(* The extraction worker with the embedding service answering, failing or
   raising: two articles have been published and the worker runs *)

\* the LLM fails, finds no risk, finds a risk
RelevanceResponses ==
    {[kind |-> "error", data |-> None],
     [kind |-> "json", data |-> NotARisk], [kind |-> "json", data |-> RiskRosneft]}

NextRelevance ==
    \/ \E c \in DOMAIN loop : ReadBatch(c) /\ UNCHANGED <<fpVars, fnVars, fetchVars, storeVars>>
    \/ \E c \in DOMAIN loop, a \in ArticleEmbeddings, k \in KeywordEmbeddings,
          resp \in RelevanceResponses, fault \in ExtractionFaults :
          ExtractEmbedded(c, a, k, resp, fault) /\ UNCHANGED <<fpVars, fnVars, fetchVars>>

SpecRelevance == InitReplay /\ [][NextRelevance]_vars

------------------------------------------------------------------------------
(* The alert worker on risk_scores, fed by a producer of scored risks *)

StoredRiskEvent(id, company, nodes, score) ==
    [_id |-> id, article_id |-> <<"str", 0>>, company_id |-> company,
     affected_supply_chain_nodes |-> nodes,
     severity |-> "high", is_confirmed |-> "uncertain", time_horizon |-> "days",
     risk_score |-> score,
     severity_band |-> score_to_band(score)]

\* RiskEvents in the store: at, below and above the alert threshold, without
\* affected nodes, of a company that is not in the store, of a supplier that
\* is not in the suppliers collection; their _id is a
\* string, as schemas.py declares it, except for the last, which has the
\* ObjectId insert_one gave it.
StoredRiskEvents ==
    {StoredRiskEvent(<<"str", 101>>, company_id, <<"Rosneft">>, alert_threshold_score),
     StoredRiskEvent(<<"str", 102>>, company_id, <<"Rosneft">>, alert_threshold_score - 1),
     StoredRiskEvent(<<"str", 103>>, company_id, <<>>, 750),
     StoredRiskEvent(<<"str", 104>>, "company_other", <<"ADNOC">>, 750),
     StoredRiskEvent(<<"str", 105>>, company_id, <<"Acme Oil">>, 750),
     StoredRiskEvent(ObjectId(1), company_id, <<"Rosneft">>, 750)}

\* the risk_scores record of a scored RiskEvent
ScoreRecord(r) ==
    [risk_event_id |-> str(r._id),
     risk_score |-> r.risk_score,
     severity_band |-> r.severity_band,
     affected_supplier |->
         IF r.affected_supply_chain_nodes # <<>>
         THEN r.affected_supply_chain_nodes[1] ELSE ""]

\* A producer appends the risk_scores record of a stored RiskEvent.
PushScore ==
    /\ Len(stream[STREAM_RISK_SCORES]) < MaxPublished
    /\ \E r \in risk_events :
          stream' = push_to_stream(stream, STREAM_RISK_SCORES, ScoreRecord(r))
    /\ UNCHANGED <<grp, loop, hlog, fpVars, fnVars, fetchVars, storeVars>>

InitAlert ==
    /\ stream = [s \in Streams |-> <<>>]
    /\ grp = [s \in Streams |-> NoGroup]
    /\ loop = [c \in {"alert_worker_1"} |->
                [stream |-> STREAM_RISK_SCORES, pc |-> "stopped", batch |-> <<>>]]
    /\ hlog = [s \in Streams |-> <<>>]
    /\ IdleFp
    /\ IdleFn
    /\ InitFetch({})
    /\ InitStore(StoredRiskEvents)

NextAlert ==
    \/ PushScore
    \/ \E c \in DOMAIN loop : StartLoop(c) /\ UNCHANGED <<fpVars, fnVars, fetchVars, storeVars>>
    \/ \E c \in DOMAIN loop : ReadBatch(c) /\ UNCHANGED <<fpVars, fnVars, fetchVars, storeVars>>
    \/ \E c \in DOMAIN loop : Alert(c) /\ UNCHANGED <<fpVars, fnVars, fetchVars>>

SpecAlert == InitAlert /\ [][NextAlert]_vars

------------------------------------------------------------------------------
(* The alert worker when the bus delivers records again: the worker runs and
   the records of two scored risks have been published *)

PublishedScores ==
    <<serialize(ScoreRecord(StoredRiskEvent(<<"str", 101>>, company_id,
                                            <<"Rosneft">>, alert_threshold_score))),
      serialize(ScoreRecord(StoredRiskEvent(<<"str", 102>>, company_id,
                                            <<"Rosneft">>, alert_threshold_score - 1)))>>

InitAlertReplay ==
    /\ stream = [s \in Streams |->
                  IF s = STREAM_RISK_SCORES THEN PublishedScores ELSE <<>>]
    /\ grp = [s \in Streams |->
               IF s = STREAM_RISK_SCORES
               THEN [exists |-> TRUE, start |-> 0, last |-> 0, pel |-> {}]
               ELSE NoGroup]
    /\ loop = [c \in {"alert_worker_1"} |->
                [stream |-> STREAM_RISK_SCORES, pc |-> "run", batch |-> <<>>]]
    /\ hlog = [s \in Streams |-> <<>>]
    /\ IdleFp
    /\ IdleFn
    /\ InitFetch({})
    /\ InitStore(StoredRiskEvents)

NextAlertReplay ==
    \/ \E c \in DOMAIN loop : ReadBatch(c) /\ UNCHANGED <<fpVars, fnVars, fetchVars, storeVars>>
    \/ \E c \in DOMAIN loop : Alert(c) /\ UNCHANGED <<fpVars, fnVars, fetchVars>>
    \/ \E c \in DOMAIN loop : Replay(c) /\ UNCHANGED <<fpVars, fnVars, fetchVars, storeVars>>

SpecAlertReplay == InitAlertReplay /\ [][NextAlertReplay]_vars

------------------------------------------------------------------------------
(* score_to_band applied to a score *)

InitFn(inputs) ==
    /\ stream = [s \in Streams |-> <<>>]
    /\ grp = [s \in Streams |-> NoGroup]
    /\ loop = << >>
    /\ hlog = [s \in Streams |-> <<>>]
    /\ IdleFp
    /\ fnIn \in inputs
    /\ fnOut = <<>>
    /\ InitFetch({})
    /\ InitStore({})

\* the function returns: fnOut holds what it returned
Return(value) ==
    /\ fnOut = <<>>
    /\ fnOut' = <<value>>
    /\ UNCHANGED <<fnIn, fpVars, busVars, fetchVars, storeVars>>

InitBand == InitFn([score : 0..MaxScore])

NextBand == Return(score_to_band(fnIn.score))

SpecBand == InitBand /\ [][NextBand]_vars

------------------------------------------------------------------------------
(* calculate_risk_score applied to a risk, a supplier and a company profile *)

\* risk_data with known, unknown and missing values of the keys read
Severities == {"critical", "high", "medium", "low", "unknown"}
Confirmations == {"true", "uncertain", "false", "unknown"}
TimeHorizons == {"immediate", "days", "weeks", "months", "unknown"}
RiskData ==
    [severity : Severities, is_confirmed : Confirmations, time_horizon : TimeHorizons]
        \cup [is_confirmed : Confirmations, time_horizon : TimeHorizons]
        \cup [severity : Severities, time_horizon : TimeHorizons]
        \cup [severity : Severities, is_confirmed : Confirmations]

\* suppliers of the material "LPG"
ScoredSuppliers ==
    [supplies : {<<"LPG">>}, supply_volume_pct : {0, 35, 55, 100},
     is_single_source : BOOLEAN]

\* n suppliers of the profile's list "suppliers" that deliver LPG, and one
\* that does not
ProfileSuppliers(n) ==
    [k \in 1..n |-> [supplies |-> <<"lpg">>, status |-> "active"]]
        \o <<[supplies |-> <<"crude oil">>, status |-> "active"],
             [supplies |-> <<"LPG">>, status |-> "blacklisted"]>>

\* company profiles: criticality and inventory days of LPG, and the list
\* "suppliers", which the seeded profile does not have
Profiles ==
    {[material_criticality |-> ("LPG" :> c), inventory_days |-> ("LPG" :> d)] :
        c \in {1, 5, 10}, d \in {0, 10, 15}}
    \cup {[material_criticality |-> ("LPG" :> 10), inventory_days |-> ("LPG" :> 15),
           suppliers |-> ProfileSuppliers(n)] : n \in {1, 4, 7}}
    \cup {[_id |-> company_id]}

InitScoring ==
    InitFn([risk_data : RiskData, supplier : ScoredSuppliers, profile : Profiles])

NextScoring ==
    Return(calculate_risk_score(fnIn.risk_data, fnIn.supplier, fnIn.profile))

SpecScoring == InitScoring /\ [][NextScoring]_vars

------------------------------------------------------------------------------
(* propagate_risk applied to a two-tier chain: an upstream supplier U of the
   supplier S1 of the company C, with or without a direct edge from U to C *)

Edge(to, weight) == [to |-> to, weight |-> weight]

ChainGraph(s1_single, w1, w2, direct) ==
    [nodes |-> [U |-> [type |-> "supplier"],
                S1 |-> [type |-> "supplier", is_single_source |-> s1_single],
                C |-> [type |-> "company"]],
     succ |-> [U |-> <<Edge("S1", w1)>> \o direct,
               S1 |-> <<Edge("C", w2)>>,
               C |-> <<>>]]

EdgeWeights == {Frac(1, 1), Frac(6, 10), Frac(1, 10)}

ChainGraphs ==
    {ChainGraph(single, w1, w2, direct) :
        single \in BOOLEAN, w1 \in EdgeWeights, w2 \in EdgeWeights,
        direct \in {<<>>, <<Edge("C", Frac(9, 10))>>}}

\* the chain whose edge into S1 has weight 1.0 and whose edge from S1 to C has
\* weight 0.6, S1 being a single source
ScenarioEGraph == ChainGraph(TRUE, Frac(1, 1), Frac(6, 10), <<>>)

\* a node A fed by the origin O directly and through B, and feeding D
DiamondGraph(a_single, wa, wba) ==
    [nodes |-> [O |-> [type |-> "supplier"],
                A |-> [type |-> "supplier", is_single_source |-> a_single],
                B |-> [type |-> "supplier"],
                D |-> [type |-> "company"]],
     succ |-> [O |-> <<Edge("A", wa), Edge("B", Frac(1, 1))>>,
               A |-> <<Edge("D", Frac(1, 1))>>,
               B |-> <<Edge("A", wba)>>,
               D |-> <<>>]]

DiamondGraphs ==
    {DiamondGraph(single, wa, wba) :
        single \in BOOLEAN, wa \in {Frac(1, 2), Frac(1, 1)},
        wba \in {Frac(1, 2), Frac(1, 1)}}

\* an accidental cycle: A depends on the origin O and O on A
CycleGraph(a_single, wa) ==
    [nodes |-> [O |-> [type |-> "supplier"],
                A |-> [type |-> "supplier", is_single_source |-> a_single]],
     succ |-> [O |-> <<Edge("A", wa)>>,
               A |-> <<Edge("O", Frac(1, 1))>>]]

CycleGraphs ==
    {CycleGraph(single, wa) :
        single \in BOOLEAN, wa \in {Frac(8001, 10000), Frac(1, 1)}}

PropagateInputs ==
    [G : ChainGraphs, risk_node_id : {"U", "S1"},
     initial_score : {Frac(8, 1), Frac(1, 1)}, threshold : {Frac(1, 1)}]
    \cup [G : DiamondGraphs, risk_node_id : {"O"},
          initial_score : {Frac(8, 1), Frac(1, 1)}, threshold : {Frac(1, 1)}]
    \cup [G : CycleGraphs, risk_node_id : {"O"},
          initial_score : {Frac(8, 1), Frac(2004, 1000)}, threshold : {Frac(1, 1)}]

InitPropagate == InitFn(PropagateInputs)

NextPropagate ==
    Return(propagate_risk(fnIn.G, fnIn.risk_node_id, fnIn.initial_score,
                          fnIn.threshold))

SpecPropagate == InitPropagate /\ [][NextPropagate]_vars

------------------------------------------------------------------------------
(* propagate_risk pass by pass: fnOut holds the locals of the run *)

\* propagated, queue and visited as set up before the loop
StartPropagate ==
    /\ fnOut = <<>>
    /\ fnOut' = <<[pc |-> "while", visited |-> {},
                   propagated |-> (fnIn.risk_node_id :> fnIn.initial_score),
                   queue |-> <<<<fnIn.risk_node_id, fnIn.initial_score>>>>,
                   log |-> <<>>]>>
    /\ UNCHANGED <<fnIn, fpVars, busVars, fetchVars, storeVars>>

\* one pass of the while loop; log notes the node popped and the number of
\* queue.append calls of the pass
PropagatePass ==
    /\ fnOut # <<>>
    /\ fnOut[1].pc = "while"
    /\ fnOut[1].queue # <<>>
    /\ LET pass == PropagateBody(fnIn.G, fnIn.threshold, fnOut[1].visited,
                                 [propagated |-> fnOut[1].propagated,
                                  queue |-> fnOut[1].queue]) IN
       fnOut' = <<[pc |-> "while", visited |-> pass.visited,
                   propagated |-> pass.st.propagated, queue |-> pass.st.queue,
                   log |-> Append(fnOut[1].log,
                                  [node |-> Head(fnOut[1].queue)[1],
                                   pushes |-> Len(pass.st.queue) + 1
                                                - Len(fnOut[1].queue)])]>>
    /\ UNCHANGED <<fnIn, fpVars, busVars, fetchVars, storeVars>>

\* the queue is empty: return propagated
ReturnPropagated ==
    /\ fnOut # <<>>
    /\ fnOut[1].pc = "while"
    /\ fnOut[1].queue = <<>>
    /\ fnOut' = <<[fnOut[1] EXCEPT !.pc = "return"]>>
    /\ UNCHANGED <<fnIn, fpVars, busVars, fetchVars, storeVars>>

NextPropagateRun == StartPropagate \/ PropagatePass \/ ReturnPropagated

SpecPropagateRun == InitPropagate /\ [][NextPropagateRun]_vars

------------------------------------------------------------------------------
(* build_supply_graph applied to a suppliers collection *)

GraphSupplier(id, name, tier, pct, single, ups) ==
    [_id |-> id, company_id |-> company_id, name |-> name, tier |-> tier,
     supplies |-> <<"crude oil">>, supply_volume_pct |-> pct,
     is_single_source |-> single, upstream_suppliers |-> ups]

\* suppliers as seed_data.py writes them, a supplier of tier 2 with an
\* upstream of its own, and a document without tier and upstream_suppliers;
\* the country, which every document and upstream has, is left out
GraphSupplierPool ==
    {GraphSupplier("supplier_rosneft", "Rosneft", 1, 65, FALSE,
                   <<[name |-> "Siberian Oil Fields", supply_volume_pct |-> 100]>>),
     GraphSupplier("supplier_adnoc", "ADNOC", 1, 35, FALSE, <<>>),
     GraphSupplier("supplier_transneft", "Transneft", 2, 40, TRUE,
                   <<[name |-> "Siberian Oil Fields"]>>),
     [_id |-> "supplier_ongc", company_id |-> company_id, name |-> "ONGC"]}

\* the collections: the documents of a part of the pool in some order
RECURSIVE Orderings(_)
Orderings(docs) ==
    IF docs = {} THEN {<<>>}
    ELSE UNION {{<<d>> \o rest : rest \in Orderings(docs \ {d})} : d \in docs}

GraphCollections == UNION {Orderings(part) : part \in SUBSET GraphSupplierPool}

InitGraph == InitFn([coll : GraphCollections, company : {company_id, "company_other"}])

NextGraph == Return(build_supply_graph(fnIn.coll, fnIn.company))

SpecGraph == InitGraph /\ [][NextGraph]_vars

------------------------------------------------------------------------------
(* A record pushed to a stream and handed to the handler *)

\* headlines, among them one that is all digits
RoundTripHeadlines ==
    {<<"P", "o", "r", "t", " ", "s", "t", "r", "i", "k", "e">>,
     <<"R", "e", "f", "i", "n", "e", "r", "y", " ", "f", "i", "r", "e">>,
     <<"1", "2", "3", "4", "5", "6", "7", "8", "9", "0">>,
     <<"0", "1", "2", "3", "4", "5", "6", "7", "8", "9">>}

\* bodies: empty, a year, words that are JSON literals, a sentence
RoundTripBodies ==
    {<<>>, <<"2", "0", "2", "4">>, <<"t", "r", "u", "e">>, <<"n", "u", "l", "l">>,
     <<"R", "o", "s", "n", "e", "f", "t", " ", "h", "i", "t">>}

\* records of normalized_events, risk_entities and risk_scores
RoundTripRecords ==
    {[event_id |-> e, source |-> "NewsAPI", headline |-> h, body |-> b, url |-> <<"u", "1">>] :
        e \in 1..2, h \in RoundTripHeadlines, b \in RoundTripBodies}
    \cup {[risk_event_id |-> str(ObjectId(n)), affected_nodes |-> nodes] :
            n \in 1..2, nodes \in {<<>>, <<"Rosneft">>, <<"Rosneft", "ADNOC">>}}
    \cup {[risk_event_id |-> str(ObjectId(n)), risk_score |-> sc,
           severity_band |-> score_to_band(sc), affected_supplier |-> sup] :
            n \in 1..2, sc \in {0, 300, 1425}, sup \in {"Rosneft", "ADNOC"}}

InitRoundTrip == InitFn([data : RoundTripRecords])

\* push_to_stream, then the dictionary consume_stream makes of the entry
NextRoundTrip ==
    Return(deserialize(push_to_stream(stream, STREAM_NORMALIZED_EVENTS, fnIn.data)
                           [STREAM_NORMALIZED_EVENTS][1]))

SpecRoundTrip == InitRoundTrip /\ [][NextRoundTrip]_vars

------------------------------------------------------------------------------
(* find_alternates applied to a suppliers collection *)

\* a supplier document as seed_data.py writes it; financial_health_score and
\* switching_cost_estimate in tenths
SupplierDoc(id, name, country, supplies, pct, status, approved, pre, esg, fin, cap, lead, switch) ==
    [_id |-> id, company_id |-> company_id, name |-> name, country |-> country,
     supplies |-> supplies, supply_volume_pct |-> pct, status |-> status,
     approved_vendor |-> approved, pre_qualified |-> pre, esg_score |-> esg,
     financial_health_score |-> fin, max_capacity |-> cap, lead_time_weeks |-> lead,
     switching_cost_estimate |-> switch]

\* the collection seed_suppliers inserts
SeedCatalog ==
    <<SupplierDoc("supplier_rosneft", "Rosneft", "Russia", <<"crude oil">>, 65,
                  "active", TRUE, TRUE, 42, 58, 50000, 3, 75),
      SupplierDoc("supplier_adnoc", "ADNOC", "UAE", <<"crude oil">>, 35,
                  "active", TRUE, TRUE, 68, 82, 30000, 2, 40),
      SupplierDoc("supplier_saudi_aramco", "Saudi Aramco", "Saudi Arabia",
                  <<"crude oil">>, 0, "alternate", TRUE, FALSE, 65, 89, 60000, 3, 55),
      SupplierDoc("supplier_ongc", "ONGC", "India", <<"crude oil">>, 0,
                  "alternate", TRUE, TRUE, 72, 71, 20000, 1, 30),
      SupplierDoc("supplier_bp", "BP", "United Kingdom", <<"crude oil", "naphtha">>, 0,
                  "pre_qualified", FALSE, TRUE, 78, 78, 40000, 4, 60),
      SupplierDoc("supplier_shell", "Shell", "Netherlands", <<"crude oil", "LPG">>, 0,
                  "pre_qualified", FALSE, TRUE, 76, 83, 45000, 4, 58)>>

\* a supplier document with the keys a candidate may lack left out
Candidate(id, name, lead, more) ==
    more @@ [_id |-> id, company_id |-> company_id, name |-> name,
             country |-> "India", supplies |-> <<"crude oil">>,
             status |-> "alternate", lead_time_weeks |-> lead]

\* candidates for crude oil: Zeta and Alpha differ in nothing that is scored,
\* Fast and Slow in the lead time only
CandidatePool ==
    {Candidate("supplier_zeta", "Zeta", 3, [approved_vendor |-> TRUE, max_capacity |-> 100]),
     Candidate("supplier_alpha", "Alpha", 3, [approved_vendor |-> TRUE, max_capacity |-> 100]),
     Candidate("supplier_fast", "Fast", 2, [approved_vendor |-> TRUE, max_capacity |-> 100]),
     Candidate("supplier_slow", "Slow", 6, [approved_vendor |-> TRUE, max_capacity |-> 100]),
     Candidate("supplier_new", "New", 3, [country |-> "Russia"]),
     Candidate("supplier_gone", "Gone", 3, [status |-> "inactive"]),
     Candidate("supplier_gas", "Gas", 3, [supplies |-> <<"LPG">>]),
     Candidate("supplier_other", "Other", 3, [company_id |-> "company_other"])}

\* the lists of at most two different candidates
CandidateLists ==
    {<<>>} \cup {<<c>> : c \in CandidatePool}
           \cup {l \in CandidatePool \X CandidatePool : l[1] # l[2]}

\* the supplier the risk is about, with its share of the supply
Disrupted(pct) ==
    [_id |-> "supplier_d", company_id |-> company_id, name |-> "Disrupted",
     country |-> "Russia", supplies |-> <<"crude oil", "naphtha">>,
     supply_volume_pct |-> pct, status |-> "active"]

Collections ==
    {<<Disrupted(pct)>> \o l : pct \in {0, 50}, l \in CandidateLists}
    \cup {SeedCatalog \o l : l \in CandidateLists}
    \cup {l \o SeedCatalog : l \in CandidateLists}

InitAlternates ==
    InitFn([coll : Collections,
            disrupted_supplier_id : {"supplier_d", "supplier_rosneft",
                                     "supplier_saudi_aramco"}])

NextAlternates ==
    Return(find_alternates(fnIn.disrupted_supplier_id, fnIn.coll, max_results))

SpecAlternates == InitAlternates /\ [][NextAlternates]_vars

------------------------------------------------------------------------------
(* The scoring worker on risk_entities, fed by a producer of risk entities *)

\* a RiskEvent as the extraction handler writes it, under the _id id
RiskEventDoc(id, nodes, severity, is_confirmed, time_horizon) ==
    [_id |-> id, article_id |-> <<"str", 0>>, company_id |-> company_id,
     affected_supply_chain_nodes |-> nodes,
     severity |-> severity, is_confirmed |-> is_confirmed,
     time_horizon |-> time_horizon,
     risk_score |-> 0, severity_band |-> "low"]

\* RiskEvents that wait for their score: of a seeded supplier, of the naphtha
\* and the LPG supplier, without affected nodes, of a name that is no
\* supplier; their _id is a string, as schemas.py declares it, except for the
\* last, which has the ObjectId insert_one gave it.
UnscoredRiskEvents ==
    {RiskEventDoc(<<"str", 201>>, <<"Rosneft">>, "high", "uncertain", "days"),
     RiskEventDoc(<<"str", 202>>, <<"Naphtha Trader">>, "high", "uncertain", "immediate"),
     RiskEventDoc(<<"str", 203>>, <<"Key LPG Supplier">>, "critical", "true", "immediate"),
     RiskEventDoc(<<"str", 204>>, <<>>, "high", "true", "days"),
     RiskEventDoc(<<"str", 205>>, <<"Acme Oil">>, "high", "true", "days"),
     RiskEventDoc(ObjectId(1), <<"Rosneft">>, "high", "uncertain", "days")}

\* the risk_entities record of a RiskEvent
EntityRecord(r) ==
    [risk_event_id |-> str(r._id), affected_nodes |-> r.affected_supply_chain_nodes]

\* A producer appends the risk_entities record of a stored RiskEvent.
PushEntity ==
    /\ Len(stream[STREAM_RISK_ENTITIES]) < MaxPublished
    /\ \E r \in risk_events :
          stream' = push_to_stream(stream, STREAM_RISK_ENTITIES, EntityRecord(r))
    /\ UNCHANGED <<grp, loop, hlog, fpVars, fnVars, fetchVars, storeVars>>

InitScore ==
    /\ stream = [s \in Streams |-> <<>>]
    /\ grp = [s \in Streams |-> NoGroup]
    /\ loop = [c \in {"scoring_worker_1"} |->
                [stream |-> STREAM_RISK_ENTITIES, pc |-> "stopped", batch |-> <<>>]]
    /\ hlog = [s \in Streams |-> <<>>]
    /\ IdleFp
    /\ IdleFn
    /\ InitFetch({})
    /\ InitStore(UnscoredRiskEvents)

NextScore ==
    \/ PushEntity
    \/ \E c \in DOMAIN loop : StartLoop(c) /\ UNCHANGED <<fpVars, fnVars, fetchVars, storeVars>>
    \/ \E c \in DOMAIN loop : ReadBatch(c) /\ UNCHANGED <<fpVars, fnVars, fetchVars, storeVars>>
    \/ \E c \in DOMAIN loop : Score(c) /\ UNCHANGED <<fpVars, fnVars, fetchVars>>

SpecScore == InitScore /\ [][NextScore]_vars

------------------------------------------------------------------------------
(* The three stage workers running together, fed by a fetch cycle; the
   external services answer every call *)

\* a RiskEvent that waits for its score
UnscoredRiskEvent(id, nodes) == StoredRiskEvent(id, company_id, nodes, 0)

\* a RiskEvent stored under a string _id, the type schemas.py declares
StoredUnscored == UnscoredRiskEvent(<<"str", 101>>, <<"Rosneft">>)

PipelineWorkers ==
    [extraction_worker_1 |-> STREAM_NORMALIZED_EVENTS,
     scoring_worker_1 |-> STREAM_RISK_ENTITIES,
     alert_worker_1 |-> STREAM_RISK_SCORES]

\* what the LLM gives when it answers
LLMAnswers == {r \in LLMResponses : r.kind # "error"}

InitPipeline ==
    /\ stream = [s \in Streams |->
                  IF s = STREAM_RISK_ENTITIES
                  THEN <<serialize(EntityRecord(StoredUnscored))>> ELSE <<>>]
    /\ grp = [s \in Streams |->
                IF s = STREAM_NEW_ALERTS THEN NoGroup
                ELSE [exists |-> TRUE, start |-> 0, last |-> 0, pel |-> {}]]
    /\ loop = [c \in DOMAIN PipelineWorkers |->
                [stream |-> PipelineWorkers[c], pc |-> "run", batch |-> <<>>]]
    /\ hlog = [s \in Streams |-> <<>>]
    /\ IdleFp
    /\ IdleFn
    /\ InitFetch({})
    /\ InitStore({StoredUnscored})

ReadAny == \E c \in DOMAIN loop : ReadBatch(c) /\ UNCHANGED <<fpVars, fnVars, fetchVars, storeVars>>
ExtractAny == \E c \in DOMAIN loop : ExtractWith(c, LLMAnswers, {"none"}) /\ UNCHANGED <<fpVars, fnVars, fetchVars>>
ScoreAny == \E c \in DOMAIN loop : ScoreWith(c, {"none"}) /\ UNCHANGED <<fpVars, fnVars, fetchVars>>
AlertAny == \E c \in DOMAIN loop : AlertWith(c, {"none"}) /\ UNCHANGED <<fpVars, fnVars, fetchVars>>

NextPipeline ==
    \/ Publish
    \/ ReadAny
    \/ ExtractAny
    \/ ScoreAny
    \/ AlertAny

SpecPipeline == InitPipeline /\ [][NextPipeline]_vars

------------------------------------------------------------------------------
(* The three stage workers running together while the LLM, the store and the
   stream may fail a call *)

ExtractFailing == \E c \in DOMAIN loop : Extract(c) /\ UNCHANGED <<fpVars, fnVars, fetchVars>>
ScoreFailing == \E c \in DOMAIN loop : Score(c) /\ UNCHANGED <<fpVars, fnVars, fetchVars>>
AlertFailing == \E c \in DOMAIN loop : Alert(c) /\ UNCHANGED <<fpVars, fnVars, fetchVars>>

NextStages ==
    \/ Publish
    \/ ReadAny
    \/ ExtractFailing
    \/ ScoreFailing
    \/ AlertFailing

SpecStages == InitPipeline /\ [][NextStages]_vars

------------------------------------------------------------------------------
(* Claims *)

Handled(s, i) == \E k \in DOMAIN hlog[s] : hlog[s][k].id = i
\* delivered to the group (after its start position) and no longer pending
Acked(s, i) ==
    /\ grp[s].exists
    /\ grp[s].start < i /\ i <= grp[s].last
    /\ i \notin grp[s].pel
InSomeBatch(s, i) ==
    \E c \in DOMAIN loop :
        /\ loop[c].stream = s
        /\ \E k \in DOMAIN loop[c].batch : loop[c].batch[k] = i
\* read by a consumer, not acknowledged, and no running loop still holds it
Orphaned(s, i) == grp[s].exists /\ i \in grp[s].pel /\ ~InSomeBatch(s, i)

\* C1: at-least-once delivery: every record appended to the stream is
\* eventually passed to the handler, and a record that was read but never
\* acknowledged is delivered again (or acknowledged).
C1_AtLeastOnce ==
    \A i \in 1..MaxRecords :
        /\ (Len(stream[BusStream]) >= i) ~> Handled(BusStream, i)
        /\ Orphaned(BusStream, i) ~> ~Orphaned(BusStream, i)

\* C2: a record is acknowledged only after its handler returned without
\* raising; when the handler raises, the record stays unacknowledged and the
\* loop goes on with the next record of the batch.
C2_AckOnlyAfterReturn ==
    /\ [](\A i \in 1..Len(stream[BusStream]) :
            Acked(BusStream, i) =>
                \E k \in DOMAIN hlog[BusStream] :
                    hlog[BusStream][k].id = i /\ hlog[BusStream][k].res = "ok")
    /\ [][Len(hlog'[BusStream]) > Len(hlog[BusStream]) =>
            LET h == hlog'[BusStream][Len(hlog'[BusStream])] IN
            h.res = "raise" =>
                /\ h.id \in grp'[BusStream].pel
                /\ loop'["consumer_1"].pc = "run"
                /\ loop'["consumer_1"].batch = Tail(loop["consumer_1"].batch)]_vars

C2_Witness ==
    \E k \in DOMAIN hlog[BusStream] :
        /\ hlog[BusStream][k].res = "raise"
        /\ k < Len(hlog[BusStream])
        /\ hlog[BusStream][k + 1].res = "ok"
        /\ hlog[BusStream][k + 1].id = hlog[BusStream][k].id + 1

\* the handler invocation a step added to the log of stream s
LastRun(h, s) == h[s][Len(h[s])]

\* C3: a stage worker that meets a transient failure of an external call
\* (the LLM, a store read or write, the append to the next stream) leaves
\* the record unacknowledged: no record is acknowledged with its work
\* incomplete.
C3_NoAckOnTransientFailure ==
    \A k \in DOMAIN hlog[STREAM_NORMALIZED_EVENTS] :
        hlog[STREAM_NORMALIZED_EVENTS][k].fail \in Transient
            => hlog[STREAM_NORMALIZED_EVENTS][k].id \in grp[STREAM_NORMALIZED_EVENTS].pel

\* C4: when the answer of the LLM cannot be parsed, the extraction worker
\* drops the record: no Article and no RiskEvent is written, nothing is
\* appended to risk_entities, the record is acknowledged and the loop goes on
\* with the next record.
C4_UnparseableDropped ==
    [][(/\ Len(hlog'[STREAM_NORMALIZED_EVENTS]) > Len(hlog[STREAM_NORMALIZED_EVENTS])
        /\ LastRun(hlog', STREAM_NORMALIZED_EVENTS).fail = "unparseable")
       => /\ articles' = articles
          /\ risk_events' = risk_events
          /\ alerts' = alerts
          /\ stream'[STREAM_RISK_ENTITIES] = stream[STREAM_RISK_ENTITIES]
          /\ LastRun(hlog', STREAM_NORMALIZED_EVENTS).id \notin grp'[STREAM_NORMALIZED_EVENTS].pel
          /\ \A c \in DOMAIN loop :
                /\ loop'[c].pc = "run"
                /\ loop'[c].batch = Tail(loop[c].batch)]_vars

\* a record with an unparseable answer, and the next record made a RiskEvent
C4_Witness ==
    \E k \in DOMAIN hlog[STREAM_NORMALIZED_EVENTS] :
        /\ hlog[STREAM_NORMALIZED_EVENTS][k].fail = "unparseable"
        /\ k < Len(hlog[STREAM_NORMALIZED_EVENTS])
        /\ hlog[STREAM_NORMALIZED_EVENTS][k + 1].id = hlog[STREAM_NORMALIZED_EVENTS][k].id + 1
        /\ hlog[STREAM_NORMALIZED_EVENTS][k + 1].fail = "none"
        /\ Cardinality(risk_events) = 1
        /\ Len(stream[STREAM_RISK_ENTITIES]) = 1

RECURSIVE CountCalls(_)
\* how many of the logged is_duplicate calls are in the set C
CountCalls(C) ==
    IF C = {} THEN 0
    ELSE LET c == CHOOSE x \in C : TRUE IN dlog[c] + CountCalls(C \ {c})

NovelCalls(fp) == {c \in DOMAIN dlog : c.fp = fp /\ c.novel}
DupCalls == {c \in DOMAIN dlog : ~c.novel}
SeenFingerprints == {c.fp : c \in DOMAIN dlog}

RECURSIVE SumDuplicates(_)
SumDuplicates(F) ==
    IF F = {} THEN 0
    ELSE LET f == CHOOSE x \in F : TRUE IN
         fetcher[f].counts.total_duplicates + SumDuplicates(F \ {f})

\* total_duplicates of the finished and of the running fetch cycles
TotalDuplicates == fetchResults.total_duplicates + SumDuplicates(DOMAIN fetcher)

RecordsWith(fp) ==
    {i \in DOMAIN stream[STREAM_NORMALIZED_EVENTS] :
        generate_fingerprint(stream[STREAM_NORMALIZED_EVENTS][i]) = fp}

\* C5: fetch cycles that run at the same time and deliver articles with the
\* same fingerprint within the TTL: exactly one is_duplicate call for the
\* fingerprint answers novel, at most one record with the fingerprint is in
\* normalized_events, and every other occurrence is counted as a duplicate.
C5_OneNovelPerFingerprint ==
    now < ttl_seconds =>
        /\ \A fp \in SeenFingerprints :
              /\ CountCalls(NovelCalls(fp)) = 1
              /\ Cardinality(RecordsWith(fp)) <= 1
        /\ TotalDuplicates = CountCalls(DOMAIN dlog) - Cardinality(SeenFingerprints)

\* fetch_2 met the fingerprint between the SET NX of fetch_1 and its push
C5_Witness ==
    /\ fetcher["fetch_1"].pc = "push"
    /\ fetcher["fetch_2"].counts.total_duplicates >= 1
    /\ \E c \in DupCalls : c.fp = generate_fingerprint(fetcher["fetch_1"].cur[1])
    /\ Cardinality(SeenFingerprints) = 2

\* C6: is_duplicate answers novel at most once per fingerprint within the
\* TTL and duplicate for the later calls within it; a call does not extend
\* the TTL, so the first call after the expiry answers novel again.
C6_NovelOncePerTTL ==
    /\ \A c \in DOMAIN dlog : c.novel => dlog[c] = 1
    /\ \A c1, c2 \in DOMAIN dlog :
          (c1.novel /\ c2.novel /\ c1.fp = c2.fp /\ c1.t < c2.t)
              => c2.t - c1.t >= ttl_seconds
    /\ \A d \in DupCalls :
          \E c \in NovelCalls(d.fp) : c.t <= d.t /\ d.t - c.t < ttl_seconds

\* novel, duplicate within the TTL, novel again after the expiry
C6_Witness ==
    \E c1, d, c2 \in DOMAIN dlog :
        /\ c1.fp = d.fp /\ d.fp = c2.fp
        /\ c1.novel /\ ~d.novel /\ c2.novel
        /\ c1.t < d.t /\ d.t < c2.t

\* the same text up to letter case and leading or trailing whitespace
SameUpToCaseAndTrim(s1, s2) == Strip(Lower(s1)) = Strip(Lower(s2))

\* C7: fingerprint stability: two articles whose headlines and bodies differ
\* only in letter case and in leading or trailing whitespace have the same
\* fingerprint.
C7_FingerprintStable ==
    (/\ fpOut # <<>>
     /\ SameUpToCaseAndTrim(fpIn[1].headline, fpIn[2].headline)
     /\ SameUpToCaseAndTrim(fpIn[1].body, fpIn[2].body))
    => fpOut[1] = fpOut[2]

\* what the store and the streams hold for the article with event_id e
ArticlesOf(e) == {a \in articles : a.event_id = e}
RiskEventsOf(e) ==
    {r \in risk_events : \E a \in ArticlesOf(e) : r.article_id = str(a._id)}
EntitiesOf(e) ==
    {i \in DOMAIN stream[STREAM_RISK_ENTITIES] :
        \E r \in RiskEventsOf(e) :
            stream[STREAM_RISK_ENTITIES][i].risk_event_id = str(r._id)}
AlertsOf(e) ==
    {al \in alerts : \E r \in RiskEventsOf(e) : al.risk_event_id = str(r._id)}

\* the entries of normalized_events given to the handler more than once
Redelivered ==
    {i \in DOMAIN stream[STREAM_NORMALIZED_EVENTS] :
        \E j, k \in DOMAIN hlog[STREAM_NORMALIZED_EVENTS] :
            /\ j < k
            /\ hlog[STREAM_NORMALIZED_EVENTS][j].id = i
            /\ hlog[STREAM_NORMALIZED_EVENTS][k].id = i}

\* C8: giving the same normalized_events record (same event_id) to the
\* extraction handler again leaves at most one Article, at most one
\* RiskEvent, at most one risk_entities record and at most one Alert for it.
C8_ReplayIdempotent ==
    \A i \in DOMAIN stream[STREAM_NORMALIZED_EVENTS] :
        LET e == stream[STREAM_NORMALIZED_EVENTS][i].event_id IN
        /\ Cardinality(ArticlesOf(e)) <= 1
        /\ Cardinality(RiskEventsOf(e)) <= 1
        /\ Cardinality(EntitiesOf(e)) <= 1
        /\ Cardinality(AlertsOf(e)) <= 1

\* a record that made an Article and a RiskEvent was handled again, and the
\* second insert of the Article was refused
C8_Witness ==
    \E i \in Redelivered :
        LET e == stream[STREAM_NORMALIZED_EVENTS][i].event_id IN
        /\ Cardinality(ArticlesOf(e)) = 1
        /\ Cardinality(RiskEventsOf(e)) = 1
        /\ Cardinality(EntitiesOf(e)) = 1
        /\ oidc = 3

\* the alerts made for the RiskEvent a risk_scores record names, and the
\* new_alerts records of these alerts
AlertsFor(rec) == {al \in alerts : al.risk_event_id = rec.risk_event_id}
NewAlertsFor(rec) ==
    {i \in DOMAIN stream[STREAM_NEW_ALERTS] :
        \E al \in AlertsFor(rec) : stream[STREAM_NEW_ALERTS][i].alert_id = str(al._id)}

\* no two records of risk_scores name the same RiskEvent
DistinctScores ==
    \A i, j \in DOMAIN stream[STREAM_RISK_SCORES] :
        stream[STREAM_RISK_SCORES][i].risk_event_id
            = stream[STREAM_RISK_SCORES][j].risk_event_id => i = j

RiskEventsOfAlert(al) == {r \in risk_events : str(r._id) = al.risk_event_id}

\* the RiskEvent the record handled by the step just taken names, if found
HandledRiskEvents(s, h) ==
    find_one(risk_events, stream[s][LastRun(h, s).id].risk_event_id)

\* C10: every Alert refers to a RiskEvent whose risk_score is at least
\* alert_threshold_score and whose affected_supply_chain_nodes is not empty;
\* for any other RiskEvent create_alert writes nothing and answers None, so
\* that no Alert and no new_alerts record is made.
C10_AlertGate ==
    /\ [](\A al \in alerts :
            /\ RiskEventsOfAlert(al) # {}
            /\ \A r \in RiskEventsOfAlert(al) :
                  /\ r.risk_score >= alert_threshold_score
                  /\ r.affected_supply_chain_nodes # <<>>
                  /\ al.risk_score = r.risk_score)
    /\ [][(/\ Len(hlog'[STREAM_RISK_SCORES]) > Len(hlog[STREAM_RISK_SCORES])
            /\ \A r \in HandledRiskEvents(STREAM_RISK_SCORES, hlog') :
                  \/ r.risk_score < alert_threshold_score
                  \/ r.affected_supply_chain_nodes = <<>>)
           => /\ alerts' = alerts
              /\ stream'[STREAM_NEW_ALERTS] = stream[STREAM_NEW_ALERTS]]_vars

\* an Alert was made for the RiskEvent at the threshold, and the records of
\* the one below it and of the one without nodes were handled too
C10_Witness ==
    /\ \E al \in alerts : al.risk_score = alert_threshold_score
    /\ Len(stream[STREAM_NEW_ALERTS]) = 1
    /\ \E k \in DOMAIN hlog[STREAM_RISK_SCORES] :
          stream[STREAM_RISK_SCORES][hlog[STREAM_RISK_SCORES][k].id].risk_event_id
              = <<"str", 102>>

\* the score calculate_risk_score gives the RiskEvent e with the supplier its
\* first affected node names; -1 when there is no such supplier
ComputedScore(e) ==
    LET found == IF e.affected_supply_chain_nodes = <<>> THEN {}
                 ELSE find_supplier(e.affected_supply_chain_nodes[1]) IN
    IF found = {} THEN -1
    ELSE LET r == calculate_risk_score(e, CHOOSE x \in found : TRUE, company_profile) IN
         IF r.raised THEN -1 ELSE r.risk_score

\* the ObjectIds a run of the pipeline can hand out
PipelineOids == 1..(2 * MaxPublished + 1)

\* the extraction worker wrote the RiskEvent with _id = id, and it is one that
\* calls for an alert
Qualifies(id) ==
    \E e \in risk_events :
        /\ e._id = id
        /\ \E a \in articles : e.article_id = str(a._id)
        /\ e.affected_supply_chain_nodes # <<>>
        /\ ComputedScore(e) >= alert_threshold_score

\* there is an Alert for the RiskEvent with _id = id, and its new_alerts record
Alerted(id) ==
    \E a \in alerts :
        /\ a.risk_event_id = str(id)
        /\ \E k \in DOMAIN stream[STREAM_NEW_ALERTS] :
              deserialize(stream[STREAM_NEW_ALERTS][k]).alert_id = str(a._id)

\* every worker has read and handled all that is on its stream
Quiescent ==
    \A c \in DOMAIN loop :
        /\ loop[c].batch = <<>>
        /\ grp[loop[c].stream].last = Len(stream[loop[c].stream])

\* C11: every RiskEvent the extraction worker wrote whose computed score
\* reaches alert_threshold_score and that names an affected node gets an Alert
\* and a record on new_alerts: once the running workers have handled
\* everything on their streams, the Alert and the record are there.
C11_AlertEventually ==
    Quiescent => \A n \in PipelineOids : Qualifies(ObjectId(n)) => Alerted(ObjectId(n))

\* the event_id of the record the k-th handling on normalized_events was for
HandledEventId(k) ==
    deserialize(stream[STREAM_NORMALIZED_EVENTS]
                      [hlog[STREAM_NORMALIZED_EVENTS][k].id]).event_id

\* notes of the handlings that came past the relevance filter with an answer
\* of the LLM that says is_risk = true, and past the write of the Article
PastArticleWrite == {"none", "risk_write", "push"}

\* C12: every Article in the store comes from a record that the relevance
\* filter admitted and the LLM classified as a risk: its relevance score
\* reaches the threshold and a handling of its record got past both checks.
\* A record whose handlings were all rejected or failed has no Article.
C12_ArticleOnlyForRisk ==
    \A a \in articles :
        /\ a.raw_relevance_score >= news_relevance_threshold
        /\ \E k \in DOMAIN hlog[STREAM_NORMALIZED_EVENTS] :
              /\ HandledEventId(k) = a.event_id
              /\ hlog[STREAM_NORMALIZED_EVENTS][k].fail \in PastArticleWrite

\* an Article is stored, and the record of another handling, which the
\* filter rejected or whose extraction failed, has none
C12_Witness ==
    /\ articles # {}
    /\ \E k \in DOMAIN hlog[STREAM_NORMALIZED_EVENTS] :
          /\ hlog[STREAM_NORMALIZED_EVENTS][k].fail \in
                {"not_relevant", "unparseable", "llm_error"}
          /\ \A a \in articles : a.event_id # HandledEventId(k)

\* C13: when the filter admits an article and the LLM answers is_risk = false,
\* then after the handling the store holds an Article for the event_id with
\* processed = true and risk_extracted = false, no RiskEvent and no Alert for
\* it, and risk_entities has no record for it.
C13_NotRiskArticleMarked ==
    \A k \in DOMAIN hlog[STREAM_NORMALIZED_EVENTS] :
        hlog[STREAM_NORMALIZED_EVENTS][k].fail = "not_risk" =>
            LET e == HandledEventId(k) IN
            /\ \E a \in ArticlesOf(e) : a.processed /\ ~a.risk_extracted
            /\ RiskEventsOf(e) = {}
            /\ AlertsOf(e) = {}
            /\ EntitiesOf(e) = {}

\* the name is that of a supplier of the catalog, whatever the case of its
\* letters
InCatalog(name) == \E s \in suppliers : lower(s.name) = lower(name)

\* C14: every name in the affected_supply_chain_nodes of a stored RiskEvent
\* is, without regard to case, the name of a supplier of the catalog.
C14_NodesInCatalog ==
    \A r \in risk_events :
        \A i \in DOMAIN r.affected_supply_chain_nodes :
            InCatalog(r.affected_supply_chain_nodes[i])

\* C15: every stored RiskEvent refers to exactly one stored Article and names
\* at least one supplier of the catalog among its affected nodes.
C15_EventHasArticleAndSupplier ==
    \A r \in risk_events :
        /\ Cardinality({a \in articles : r.article_id = str(a._id)}) = 1
        /\ \E i \in DOMAIN r.affected_supply_chain_nodes :
              InCatalog(r.affected_supply_chain_nodes[i])

\* C16: for every stored RiskEvent, scored or not, the stored severity_band
\* is the band of the stored risk_score; so is the pair that
\* calculate_risk_score returns, which is what the scoring handler stores.
C16_BandOfStoredScore ==
    \A r \in risk_events : r.severity_band = score_to_band(r.risk_score)

\* C17: score_to_band(s) is "critical" iff s >= 10, "high" iff 6 <= s < 10,
\* "medium" iff 3 <= s < 6 and "low" iff s < 3 (scores in hundredths).
C17_BandThresholds ==
    fnOut # <<>> =>
        LET s == fnIn.score
            band == fnOut[1] IN
        /\ band = "critical" <=> s >= 1000
        /\ band = "high" <=> (600 <= s /\ s < 1000)
        /\ band = "medium" <=> (300 <= s /\ s < 600)
        /\ band = "low" <=> s < 300

\* score_to_band was applied to a score that is exactly a threshold
C17_Witness ==
    /\ fnOut = <<"high">>
    /\ fnIn.score = 600

\* C18: whatever the severity, is_confirmed and time_horizon (unknown and
\* missing values included), for a supply_volume_pct in [0, 100], a
\* criticality in [1, 10], inventory_days >= 0 and any number of alternates,
\* the components calculate_risk_score returns have mitigation in [0.5, 2.0],
\* impact in [1, 10] and probability in [0, 1].
C18_ComponentRanges ==
    (fnOut # <<>> /\ ~fnOut[1].raised) =>
        LET c == fnOut[1].components IN
        /\ ~Less(c.mitigation, Frac(1, 2)) /\ ~Less(Frac(2, 1), c.mitigation)
        /\ 100 <= c.impact /\ c.impact <= 1000
        /\ 0 <= c.probability /\ c.probability <= 1000

\* the score was computed for a supplier that delivers nothing, whose impact
\* is brought up to 1, with so many alternates that the mitigation is 2.0,
\* and for a risk without a severity
C18_Witness ==
    /\ fnOut # <<>>
    /\ fnIn.supplier.supply_volume_pct = 0
    /\ "severity" \notin DOMAIN fnIn.risk_data
    /\ fnOut[1].components.impact = 100
    /\ fnOut[1].components.mitigation = Frac(2, 1)

\* the RiskEvents the extraction worker wrote for the critical, confirmed,
\* immediate disruption of the only LPG supplier (supply_volume_pct 100,
\* criticality 5, inventory 10 days, single source)
ScenarioAEvents ==
    {e \in risk_events :
        /\ \E a \in articles : e.article_id = str(a._id)
        /\ e.affected_supply_chain_nodes = <<"Key LPG Supplier">>
        /\ e.severity = "critical"
        /\ e.is_confirmed = "true"
        /\ e.time_horizon = "immediate"}

\* C19: the score is (probability x impact x urgency) / mitigation rounded to
\* 2 decimals; for the critical, confirmed, immediate disruption of the single
\* LPG supplier it is 14.25 with band critical, and one Alert is generated:
\* once the running workers have handled everything, the RiskEvent has its
\* one Alert.
C19_ScenarioAAlert ==
    Quiescent =>
        \A e \in ScenarioAEvents :
            /\ ComputedScore(e) = 1425
            /\ score_to_band(ComputedScore(e)) = "critical"
            /\ Cardinality({a \in alerts : a.risk_event_id = str(e._id)}) = 1

\* C19, the numbers alone: what calculate_risk_score returns for the two
\* scenarios, 14.25 / critical and 0.18 / low, the latter below the alert
\* threshold; and the probability is the severity's value times 1.0, 0.7 or
\* 0.3.
C19_ScenarioScores ==
    fnOut # <<>> =>
        LET d == fnIn.risk_data
            r == fnOut[1] IN
        /\ (/\ d = [severity |-> "critical", is_confirmed |-> "true",
                     time_horizon |-> "immediate"]
            /\ fnIn.supplier = [supplies |-> <<"LPG">>, supply_volume_pct |-> 100,
                                is_single_source |-> TRUE]
            /\ fnIn.profile = [material_criticality |-> ("LPG" :> 5),
                               inventory_days |-> ("LPG" :> 10)])
           => (r.risk_score = 1425 /\ r.severity_band = "critical"
               /\ r.components.impact = 375)
        /\ (/\ d = [severity |-> "low", is_confirmed |-> "true",
                     time_horizon |-> "months"]
            /\ fnIn.supplier = [supplies |-> <<"LPG">>, supply_volume_pct |-> 35,
                                is_single_source |-> FALSE]
            /\ fnIn.profile = [material_criticality |-> ("LPG" :> 10),
                               inventory_days |-> ("LPG" :> 15),
                               suppliers |-> ProfileSuppliers(4)])
           => (r.risk_score = 18 /\ r.severity_band = "low"
               /\ r.risk_score < alert_threshold_score
               /\ r.components.mitigation = Frac(16, 10))
        /\ (d \in [severity : {"critical"}, is_confirmed : Confirmations,
                    time_horizon : TimeHorizons])
           => r.components.probability =
                 (IF d.is_confirmed = "uncertain" THEN 665
                  ELSE IF d.is_confirmed = "false" THEN 285 ELSE 950)

\* C20: on the chain U -> S1 (weight 1.0, S1 single source) -> C (weight 0.6),
\* propagate_risk from U with initial score 8.0 and threshold 1.0 returns
\* exactly {U: 8.0, S1: 10.0, C: 6.0}.
C20_ScenarioEPropagation ==
    (/\ fnOut # <<>>
     /\ fnIn = [G |-> ScenarioEGraph, risk_node_id |-> "U",
                initial_score |-> Frac(8, 1), threshold |-> Frac(1, 1)])
    => fnOut[1] = [U |-> Frac(8, 1), S1 |-> Frac(10, 1), C |-> Frac(6, 1)]

\* propagate_risk has returned for the chain of the scenario
C20_Witness ==
    /\ fnOut # <<>>
    /\ fnIn.G = ScenarioEGraph
    /\ fnIn.risk_node_id = "U"
    /\ fnIn.initial_score = Frac(8, 1)
    /\ DOMAIN fnOut[1] = {"U", "S1", "C"}

\* the map propagate_risk returned
Propagated == fnOut[1]

\* x <= y
AtMost(x, y) == ~Less(y, x)

SingleSources(G) ==
    {n \in DOMAIN G.nodes : Get(G.nodes[n], "is_single_source", FALSE)}

RECURSIVE Raised(_, _)
\* x times 1.25, k times
Raised(x, k) == IF k = 0 THEN x ELSE Raised(Mul(x, Frac(5, 4)), k - 1)

RECURSIVE PathScores(_, _, _, _)
PathScores(G, node, score, threshold) ==
    {<<node, score>>} \cup
    UNION {LET e == G.succ[node][i]
               step == Mul(Mul(score, e.weight),
                           Add(Frac(1, 2),
                               Mul(IF Get(G.nodes[e.to], "is_single_source", FALSE)
                                   THEN Frac(3, 2) ELSE Frac(1, 1), Frac(1, 2)))) IN
           IF Less(threshold, step) THEN PathScores(G, e.to, step, threshold) ELSE {}
           : i \in 1..Len(G.succ[node])}

\* the highest score of a node among the pairs
BestOf(pairs, n) ==
    LET scores == {p[2] : p \in {q \in pairs : q[1] = n}} IN
    CHOOSE x \in scores : \A y \in scores : AtMost(y, x)

\* C23: on a DAG the score propagate_risk returns for each reached node is the
\* maximum, over all paths from the origin to that node, of the attenuated
\* score along the path; a node improved after it was expanded passes the
\* improved score on to its successors.
C23_BestPathDominates ==
    (fnOut # <<>> /\ fnIn.G \in ChainGraphs \cup DiamondGraphs) =>
        LET pairs == PathScores(fnIn.G, fnIn.risk_node_id, fnIn.initial_score,
                                fnIn.threshold) IN
        /\ DOMAIN Propagated = {p[1] : p \in pairs}
        /\ \A n \in DOMAIN Propagated :
               Propagated[n] = Frac(round(BestOf(pairs, n), 100), 100)

\* the list find_alternates returned
Alternates == fnOut[1]

\* the document of the disrupted supplier, in a list when there is one
DisruptedDoc == SelectSeq(fnIn.coll, LAMBDA d : d._id = fnIn.disrupted_supplier_id)

\* the documents the query of find_alternates selects, as the spec states it
Eligible ==
    {fnIn.coll[i] : i \in
        {j \in 1..Len(fnIn.coll) :
            /\ DisruptedDoc # <<>>
            /\ InSeq(DisruptedDoc[1].supplies[1], fnIn.coll[j].supplies)
            /\ fnIn.coll[j].status \in {"active", "alternate", "pre_qualified"}
            /\ fnIn.coll[j].company_id = DisruptedDoc[1].company_id
            /\ fnIn.coll[j]._id # fnIn.disrupted_supplier_id}}

\* the scores given to the eligible candidates that got one
ScoresGiven ==
    {r \in {score_alternate_supplier(c, DisruptedDoc[1],
                                      DisruptedDoc[1].supply_volume_pct) : c \in Eligible} :
        ~r.raised}

\* C24: the list returned by find_alternates is non-increasing in score, holds
\* at most max_results (5) entries, and these are the highest-scoring
\* candidates: no candidate left out has a higher score than one returned.
C24_SortedTopFive ==
    fnOut # <<>> =>
        /\ \A i \in 1..Len(Alternates) : \A j \in i..Len(Alternates) :
               Alternates[i].score >= Alternates[j].score
        /\ Len(Alternates) <= 5
        /\ \A i \in 1..Len(Alternates) : Alternates[i] \in ScoresGiven
        /\ Len(Alternates) = Min(5, Cardinality(ScoresGiven))
        /\ \A r \in ScoresGiven :
               InSeq(r, Alternates) \/ \A i \in 1..Len(Alternates) :
                                          Alternates[i].score >= r.score

\* more than five candidates were scored and five returned, the first with a
\* higher score than the last; the candidate with a lead time of 2 weeks is
\* among them, the one with 6 weeks is left out
C24_Witness ==
    /\ fnOut # <<>>
    /\ Cardinality(ScoresGiven) > 5
    /\ Len(Alternates) = 5
    /\ Alternates[1].score > Alternates[5].score
    /\ \E i \in 1..5 : Alternates[i].name = "Fast"
    /\ \E r \in ScoresGiven : r.name = "Slow" /\ ~InSeq(r, Alternates)

\* the names of the suppliers in ascending order
NamesAscending ==
    <<"ADNOC", "Alpha", "BP", "Disrupted", "Fast", "Gas", "Gone", "New", "ONGC",
      "Other", "Rosneft", "Saudi Aramco", "Shell", "Slow", "Zeta">>

\* the place of a name in that order
NameRank(name) == CHOOSE i \in 1..Len(NamesAscending) : NamesAscending[i] = name

\* a comes before b, or may, by lead time ascending, then approved vendors
\* first, then name ascending
TieOrder(a, b) ==
    \/ a.lead_time_weeks < b.lead_time_weeks
    \/ /\ a.lead_time_weeks = b.lead_time_weeks
       /\ \/ a.approved_vendor /\ ~b.approved_vendor
          \/ /\ a.approved_vendor = b.approved_vendor
             /\ NameRank(a.name) <= NameRank(b.name)

\* C25: among candidates with equal final score in the list returned by
\* find_alternates the order is by lead_time_weeks ascending, then
\* approved_vendor = true first, then name ascending, whatever the order in
\* which the store returned the candidates.
C25_TieBreakOrder ==
    fnOut # <<>> =>
        \A i \in 1..Len(Alternates) : \A j \in (i + 1)..Len(Alternates) :
            Alternates[i].score = Alternates[j].score
                => TieOrder(Alternates[i], Alternates[j])

\* C26: find_alternates ranks exactly the suppliers that supply the first
\* material of the disrupted supplier, have a status in {active, alternate,
\* pre_qualified}, belong to the same company and are not the disrupted
\* supplier: the disrupted supplier is never in the result, no ineligible
\* supplier is, and no eligible supplier is left out of the ranking, for any
\* supply_volume_pct of the disrupted supplier in [0,100].
C26_RanksExactlyEligible ==
    fnOut # <<>> =>
        /\ \A i \in 1..Len(Alternates) :
               /\ Alternates[i].supplier_id # fnIn.disrupted_supplier_id
               /\ \E c \in Eligible : c._id = Alternates[i].supplier_id
        /\ Len(Alternates) = Min(5, Cardinality(Eligible))

\* the k-th record of a stream as a handler gets it
RecordOf(s, k) == deserialize(stream[s][k])

\* C27: per-article ordering: a RiskEvent is in the store before its id is on
\* risk_entities, its score and band are in the store before its record is
\* on risk_scores, and an Alert for it exists only when that risk_scores
\* record does; no stage handles a record whose predecessor has not
\* completed its store write.
C27_StageOrder ==
    /\ \A k \in DOMAIN stream[STREAM_RISK_ENTITIES] :
           \E e \in risk_events :
               str(e._id) = RecordOf(STREAM_RISK_ENTITIES, k).risk_event_id
    /\ \A k \in DOMAIN stream[STREAM_RISK_SCORES] :
           \E e \in risk_events :
               /\ str(e._id) = RecordOf(STREAM_RISK_SCORES, k).risk_event_id
               /\ e.risk_score = RecordOf(STREAM_RISK_SCORES, k).risk_score
               /\ e.severity_band = RecordOf(STREAM_RISK_SCORES, k).severity_band
    /\ \A a \in alerts :
           \E k \in DOMAIN stream[STREAM_RISK_SCORES] :
               RecordOf(STREAM_RISK_SCORES, k).risk_event_id = a.risk_event_id

\* all three stages have written: the extraction worker put a second record
\* on risk_entities, a score is on risk_scores, an Alert is in the store, and
\* some handling ended in a failed call
C27_Witness ==
    /\ Len(stream[STREAM_RISK_ENTITIES]) >= 2
    /\ stream[STREAM_RISK_SCORES] # <<>>
    /\ alerts # {}
    /\ \E s \in Streams : \E k \in DOMAIN hlog[s] :
           hlog[s][k].fail \in {"risk_write", "push", "alert_write"}

\* C28: for every record on risk_entities whose RiskEvent names affected
\* nodes, the first of them a supplier of the catalog, the scoring handler
\* finds the RiskEvent by the risk_event_id of the record, writes its score
\* and band into it and then appends (risk_event_id, score, band, supplier)
\* to risk_scores: once the workers have handled everything on their streams
\* the score is in the RiskEvent and the record on risk_scores.
C28_ScoredInPlace ==
    Quiescent =>
        \A k \in DOMAIN stream[STREAM_RISK_ENTITIES] : \A e \in risk_events :
            (/\ str(e._id) = RecordOf(STREAM_RISK_ENTITIES, k).risk_event_id
             /\ e.affected_supply_chain_nodes # <<>>
             /\ find_supplier(e.affected_supply_chain_nodes[1]) # {})
            => /\ e.risk_score = ComputedScore(e)
               /\ \E j \in DOMAIN stream[STREAM_RISK_SCORES] :
                      /\ RecordOf(STREAM_RISK_SCORES, j).risk_event_id = str(e._id)
                      /\ RecordOf(STREAM_RISK_SCORES, j).risk_score = e.risk_score
                      /\ RecordOf(STREAM_RISK_SCORES, j).affected_supplier
                             = e.affected_supply_chain_nodes[1]

\* the number of times the entry i of the stream s was passed to a handler
TimesHandled(s, i) == Cardinality({k \in DOMAIN hlog[s] : hlog[s][k].id = i})

\* C29: competing consumers: with several consume_stream loops of one group
\* on a stream, started under the same consumer name, and no handler
\* failing, each record is passed to a handler exactly once across the
\* group: never twice, and once when the loops have handled what they read
\* and nothing is left to read.
C29_ExactlyOnce ==
    /\ \A i \in DOMAIN stream[BusStream] : TimesHandled(BusStream, i) <= 1
    /\ (/\ \A c \in DOMAIN loop : loop[c].batch = <<>>
        /\ grp[BusStream].last = Len(stream[BusStream]))
       => \A i \in DOMAIN stream[BusStream] : TimesHandled(BusStream, i) = 1

\* two loops hold records they read at the same time, different ones, and a
\* record was handled before
C29_Witness ==
    /\ \E c \in DOMAIN loop : \E d \in DOMAIN loop :
           /\ c # d
           /\ loop[c].batch # <<>>
           /\ loop[d].batch # <<>>
    /\ hlog[BusStream] # <<>>

\* C30: on a shutdown signal to a consumer loop the record in hand is finished
\* and acknowledged, no further record is claimed, and no record the loop had
\* claimed in its batch is left both unprocessed and unrecoverable: there is
\* no entry that is pending, was never passed to a handler and is in the
\* batch of no loop.
C30_ShutdownLeavesNothingBehind ==
    \A i \in DOMAIN stream[BusStream] :
        ~(Orphaned(BusStream, i) /\ ~Handled(BusStream, i))

\* what the claim calls an article that fails validation: a required field
\* is missing or empty, or the headline has fewer than 10 characters
FailsValidation(article) ==
    \/ article.event_id = 0
    \/ article.source = ""
    \/ article.headline = <<>>
    \/ article.url = <<>>
    \/ Len(article.headline) < 10

\* C31: an article that fails validation is dropped before the dedup check:
\* the step of the fetch loop that meets it leaves the Dedup Index and
\* normalized_events as they are, counts it as invalid and goes on with the
\* next article; no article that fails validation ever waits for its push.
C31_InvalidDroppedBeforeDedup ==
    [][/\ \A f \in DOMAIN fetcher, raw \in RawArticles :
            (FetchArticle(f, raw)
               /\ FailsValidation(normalize_newsapi_article(raw, uuidc + 1)))
            => /\ dedup' = dedup
               /\ dlog' = dlog
               /\ stream' = stream
               /\ fetcher'[f].counts.total_invalid = fetcher[f].counts.total_invalid + 1
               /\ fetcher'[f].counts.total_new = fetcher[f].counts.total_new
               /\ fetcher'[f].counts.total_duplicates = fetcher[f].counts.total_duplicates
               /\ fetcher'[f].pc = "loop"
       /\ \A f \in DOMAIN fetcher :
            fetcher'[f].cur # <<>> => ~FailsValidation(fetcher'[f].cur[1])]_vars

\* a cycle that met a valid article and two articles that are not valid:
\* one fingerprint in the index, one record, two counted as invalid
C31_Witness ==
    /\ fetchResults.total_invalid = 2
    /\ fetchResults.total_new = 1
    /\ Cardinality(DOMAIN dedup) = 1
    /\ Len(stream[STREAM_NORMALIZED_EVENTS]) = 1

\* the embedding service failed: a get_embedding call raised or answered
\* with an empty embedding
EmbeddingFailed(a, k) ==
    a.raised \/ k.raised \/ a.embedding = <<>> \/ k.embedding = <<>>

\* the handling noted last did not stop at the relevance filter
AdmittedLast(s) == hlog'[s][Len(hlog'[s])].fail # "not_relevant"

\* C32: the relevance filter admits an article exactly when its score is at
\* least the threshold; when the embedding service fails the score is 0.5,
\* the article is admitted and handed to the LLM extraction.
C32_FailOpenRelevance ==
    [][\A c \in DOMAIN loop, a \in ArticleEmbeddings, k \in KeywordEmbeddings,
         resp \in RelevanceResponses, fault \in ExtractionFaults :
         ExtractEmbedded(c, a, k, resp, fault) =>
            LET score == IF EmbeddingFailed(a, k) THEN 50
                         ELSE cosine_similarity(a.embedding, k.embedding) IN
            /\ AdmittedLast(loop[c].stream) <=> score >= news_relevance_threshold
            /\ EmbeddingFailed(a, k) =>
                 /\ AdmittedLast(loop[c].stream)
                 /\ (resp.kind = "error" /\ fault = "none") =>
                        hlog'[loop[c].stream][Len(hlog'[loop[c].stream])].fail = "llm_error"
                 /\ \A d \in articles' \ articles : d.raw_relevance_score = 50]_vars

\* one article went through on the default score (no vectors of the
\* answers have the similarity 0.5) and became a RiskEvent, the
\* other was turned away by the filter
C32_Witness ==
    /\ \E d \in articles : d.raw_relevance_score = 50 /\ d.risk_extracted
    /\ risk_events # {}
    /\ \E k \in DOMAIN hlog[STREAM_NORMALIZED_EVENTS] :
          hlog[STREAM_NORMALIZED_EVENTS][k].fail = "not_relevant"

\* number of edges of a graph
RECURSIVE SumOutDegree(_, _)
SumOutDegree(G, nodes) ==
    IF nodes = {} THEN 0
    ELSE LET n == CHOOSE x \in nodes : TRUE IN
         Len(G.succ[n]) + SumOutDegree(G, nodes \ {n})

number_of_edges(G) == SumOutDegree(G, DOMAIN G.succ)

RECURSIVE SumPushes(_)
SumPushes(log) == IF log = <<>> THEN 0 ELSE Head(log).pushes + SumPushes(Tail(log))

\* C33: propagate_risk terminates on every finite graph, with cycles and
\* with factors above 1: in a run the successors of a node are gone through
\* in at most one pass of the loop, so the queue.append calls number at most
\* the edges of the graph, the passes at most one more, and once the queue
\* is empty every entry has been popped.
C33_PushesBoundedByEdges ==
    fnOut # <<>> =>
        LET log == fnOut[1].log IN
        /\ \A i, j \in DOMAIN log :
              (log[i].node = log[j].node /\ log[i].pushes > 0 /\ log[j].pushes > 0)
                  => i = j
        /\ \A i \in DOMAIN log : log[i].pushes <= Len(fnIn.G.succ[log[i].node])
        /\ SumPushes(log) <= number_of_edges(fnIn.G)
        /\ Len(log) + Len(fnOut[1].queue) = SumPushes(log) + 1
        /\ Len(log) <= number_of_edges(fnIn.G) + 1

\* a run over a cycle whose factor is above 1 has returned: the origin was
\* pushed again by its successor, popped again and not expanded again
C33_Witness ==
    /\ fnOut # <<>>
    /\ fnOut[1].pc = "return"
    /\ \E i, j \in DOMAIN fnOut[1].log :
          /\ i < j
          /\ fnOut[1].log[i].node = fnIn.risk_node_id
          /\ fnOut[1].log[j].node = fnIn.risk_node_id
          /\ fnOut[1].log[j].pushes = 0
    /\ \E n \in DOMAIN fnOut[1].propagated :
          Less(fnIn.initial_score, fnOut[1].propagated[n])

\* the suppliers of the catalog that offer the material and can be used
Offering(material) ==
    {s \in suppliers :
        /\ \E j \in DOMAIN s.supplies : lower(s.supplies[j]) = lower(material)
        /\ s.status \in {"active", "alternate", "pre_qualified"}}

\* the mitigation the catalog gives a supplier
CatalogMitigation(supplier) ==
    LET num_alternates == Cardinality(Offering(supplier.supplies[1])) - 1 IN
    IF supplier.is_single_source THEN Frac(1, 2)
    ELSE Add(Frac(1, 1), MinF(Frac(2 * num_alternates, 10), Frac(1, 1)))

\* the RiskEvents the scoring worker has scored, by the records it handled
ScoredByWorker ==
    {e \in risk_events :
        /\ \E k \in DOMAIN hlog[STREAM_RISK_ENTITIES] :
              /\ hlog[STREAM_RISK_ENTITIES][k].fail \in {"none", "push"}
              /\ RecordOf(STREAM_RISK_ENTITIES, hlog[STREAM_RISK_ENTITIES][k].id).risk_event_id
                    = e._id
        /\ e.affected_supply_chain_nodes # <<>>
        /\ find_supplier(e.affected_supply_chain_nodes[1]) # {}}

SupplierResolves(r) ==
    /\ r.affected_supply_chain_nodes # <<>>
    /\ \E x \in suppliers :
          /\ x.name = r.affected_supply_chain_nodes[1]
          /\ x.company_id = r.company_id

HasEdge(G, u, v) == u \in DOMAIN G.succ /\ \E i \in DOMAIN G.succ[u] : G.succ[u][i].to = v

\* the nodes reached from the nodes of from in one step or more
RECURSIVE ReachedFrom(_, _, _)
ReachedFrom(G, from, seen) ==
    LET next == UNION {{G.succ[n][i].to : i \in DOMAIN G.succ[n]} : n \in from}
        new == next \ seen IN
    IF new = {} THEN seen ELSE ReachedFrom(G, new, seen \cup new)

Acyclic(G) == \A n \in DOMAIN G.succ : n \notin ReachedFrom(G, {n}, {})

\* the supplier documents of the company in the collection
DocsOf(coll, company) == {coll[i] : i \in {j \in DOMAIN coll : coll[j].company_id = company}}

\* C36: in the graph build_supply_graph returns, a supplier of tier 1 has an
\* edge to the company, a supplier of tier 2 or higher has its edge to a
\* supplier that depends on it and none to the company, every declared
\* upstream has an edge to the supplier that declares it, the company has no
\* outgoing edge and the graph is acyclic.
C36_EdgesFollowTiers ==
    (fnOut # <<>> /\ fnIn.company \in Companies) =>
        LET G == fnOut[1]
            docs == DocsOf(fnIn.coll, fnIn.company) IN
        /\ \A d \in docs :
              /\ Get(d, "tier", 1) = 1 => HasEdge(G, d._id, fnIn.company)
              /\ Get(d, "tier", 1) >= 2 =>
                    /\ ~HasEdge(G, d._id, fnIn.company)
                    /\ \E e \in docs : e # d /\ HasEdge(G, d._id, e._id)
              /\ \A i \in DOMAIN Get(d, "upstream_suppliers", <<>>) :
                    HasEdge(G, d._id \o "_upstream_" \o d.upstream_suppliers[i].name, d._id)
        /\ G.succ[fnIn.company] = <<>>
        /\ Acyclic(G)

\* the Alerts whose id the new_alerts record k carries
AlertsOfRecord(k) ==
    {al \in alerts : str(al._id) = RecordOf(STREAM_NEW_ALERTS, k).alert_id}

C38_NoNovelArticleLost ==
    (\A f \in DOMAIN fetcher : fetcher[f].pc = "idle") =>
        \A fp \in DOMAIN dedup :
            KeyAlive(dedup, fp, now) => RecordsWith(fp) # {}

\* the RiskEvents whose article_id is the id of the Article
RiskEventsFor(a) == {r \in risk_events : r.article_id = str(a._id)}

\* the record of the Article was handled again, with no call failing, after
\* the handling in which the Article was inserted and the RiskEvent insert or
\* the append failed
ReplayedAfterFailure(a) ==
    \E j, k \in DOMAIN hlog[STREAM_NORMALIZED_EVENTS] :
        /\ j < k
        /\ hlog[STREAM_NORMALIZED_EVENTS][j].id = hlog[STREAM_NORMALIZED_EVENTS][k].id
        /\ HandledEventId(j) = a.event_id
        /\ hlog[STREAM_NORMALIZED_EVENTS][j].fail \in {"risk_write", "push"}
        /\ hlog[STREAM_NORMALIZED_EVENTS][k].fail = "none"

\* C39: every Article with risk_extracted = true eventually has exactly one
\* RiskEvent whose article_id is its id, also when the insert of the RiskEvent
\* or the append to risk_entities failed after the Article was inserted and
\* the record is replayed later: once the worker has handled everything and
\* the record of the Article has been handled again, the RiskEvent is there.
C39_ArticleGetsItsRiskEvent ==
    Quiescent =>
        \A a \in articles :
            (a.risk_extracted /\ ReplayedAfterFailure(a)) => Cardinality(RiskEventsFor(a)) = 1

\* C40: stream record round trip: the dictionary handed to the handler has
\* the keys of the record passed to push_to_stream, its list values equal the
\* originals, and every string value equals the original string: no string
\* field is turned into a number, a boolean, null or a container.
C40_RoundTrip ==
    fnOut # <<>> =>
        /\ DOMAIN fnOut[1] = DOMAIN fnIn.data
        /\ \A k \in DOMAIN fnIn.data \ NumberFields : fnOut[1][k] = fnIn.data[k]

====
